---------------------------- MODULE Spec2Model ----------------------------
(***************************************************************************)
(* A model of the roadmap validator of grokify/structured-roadmap.         *)
(*                                                                         *)
(* Validate(r) walks a Roadmap in seven passes and appends one             *)
(* ValidationError per violation to result.Errors.  The model keeps the    *)
(* document r, the ValidationResult under construction, the four id maps   *)
(* of the function and the pass the function has reached.                  *)
(*                                                                         *)
(* The derived views of a Roadmap (the ItemsBy groupings, Stats and the    *)
(* methods of Stats) are modelled as calls on the document, each leaving   *)
(* the value it returns in view.                                           *)
(*                                                                         *)
(* The codec (ToJSON, Parse, ParseFile, WriteFile) is encoding/json driven *)
(* by the struct tags, over JSON values and a small file system (files).   *)
(* Concurrent calls of Validate and the views on one document keep their   *)
(* locals in procs.  The maps the legend functions return are references   *)
(* into heap.                                                              *)
(*                                                                         *)
(* Go strings are TLA+ strings; a target_quarter, which the code matches   *)
(* against a regular expression, is the sequence of its characters.        *)
(* Go slices are sequences; a slice index i (from 0) is sequence index     *)
(* i + 1.  A Go map[string]bool filled only with true is the set of its    *)
(* keys.                                                                   *)
(***************************************************************************)
EXTENDS Naturals, Sequences, FiniteSets, TLC

VARIABLES
    r,          \* the Roadmap handed to Validate
    pc,         \* the pass Validate is about to run
    result,     \* the ValidationResult under construction
    itemIDs,    \* map[string]bool of the item pass
    areaIDs,    \* map[string]bool of the area pass
    phaseIDs,   \* map[string]bool of the phase pass
    sectionIDs, \* map[string]bool of the section pass
    view,       \* the derived view last returned: its method and its value
    files,      \* the files of the file system, by path
    procs,      \* the calls that run concurrently on r, each with its locals
    heap        \* the maps the legend functions have allocated, by address

vars ==
    <<r, pc, result, itemIDs, areaIDs, phaseIDs, sectionIDs, view, files, procs,
      heap>>

---------------------------------------------------------------------------
(* Types of package roadmap                                                *)

StatusCompleted == "completed"
StatusInProgress == "in_progress"
StatusPlanned == "planned"
StatusFuture == "future"

PriorityCritical == "critical"
PriorityHigh == "high"
PriorityMedium == "medium"
PriorityLow == "low"

ContentTypeText == "text"
ContentTypeCode == "code"
ContentTypeDiagram == "diagram"
ContentTypeTable == "table"
ContentTypeList == "list"
ContentTypeBlockquote == "blockquote"

\* The zero value of each struct of the package.  A *time.Time and a
\* *Dependencies are records with the flag set, FALSE for the nil pointer; a
\* time is kept by its year.
ZeroTask == [ID |-> "", Description |-> "", Completed |-> FALSE, FilePath |-> ""]

ZeroContentBlock ==
    [Type |-> "", Value |-> "", Language |-> "", Format |-> "",
     Headers |-> <<>>, Rows |-> <<>>, Items |-> <<>>]

ZeroItem ==
    [ID |-> "", Title |-> "", Description |-> "", Status |-> "", Version |-> "",
     CompletedDate |-> "", TargetQuarter |-> <<>>, TargetVersion |-> "",
     Area |-> "", Type |-> "", Phase |-> "", Priority |-> "", Order |-> 0,
     DependsOn |-> <<>>, Tasks |-> <<>>, Content |-> <<>>]

ZeroArea == [ID |-> "", Name |-> "", Priority |-> 0]

ZeroPhase ==
    [ID |-> "", Name |-> "", Status |-> "", Order |-> 0, Description |-> ""]

ZeroSection == [ID |-> "", Title |-> "", Order |-> 0, Content |-> <<>>]

ZeroVersionEntry == [Version |-> "", Date |-> "", Status |-> "", Summary |-> ""]

ZeroExternalDependency == [Name |-> "", Status |-> "", Note |-> ""]

ZeroInternalDependency == [Package |-> "", DependsOn |-> <<>>]

NilTime == [set |-> FALSE, year |-> 0]

NilDependencies == [set |-> FALSE, External |-> <<>>, Internal |-> <<>>]

\* Legend, a map[Status]LegendEntry, is the function on its keys (nil: on no
\* key).
ZeroRoadmap ==
    [IRVersion |-> "", Project |-> "", Repository |-> "", GeneratedAt |-> NilTime,
     Legend |-> <<>>, Areas |-> <<>>, Phases |-> <<>>, Items |-> <<>>,
     Sections |-> <<>>, VersionHistory |-> <<>>, Dependencies |-> NilDependencies]

---------------------------------------------------------------------------
(* Formatting                                                              *)

\* string(q) for a string kept as the sequence of its characters.
RECURSIVE Str(_)
Str(q) == IF q = <<>> THEN "" ELSE Head(q) \o Str(Tail(q))

\* A faulty Indexed: positions counted from 1.
IndexedFromOne(coll, i) == coll \o "[" \o ToString(i + 1) \o "]"

\* fmt.Sprintf("<coll>[%d]", i) for the slice index i (from 0).
Indexed(coll, i) == coll \o "[" \o ToString(i) \o "]"

MsgMissing == "required field is missing"
MsgUnsupportedVersion(v) == "unsupported version: " \o v
MsgDuplicateID(id) == "duplicate ID: " \o id
MsgInvalidStatus(s) == "invalid status: " \o s
MsgInvalidQuarter(q) == "invalid format: " \o Str(q) \o " (expected 'Q1 2026')"
MsgInvalidType(t) ==
    "invalid change type: " \o t \o " (see structured-changelog for valid types)"
MsgUnknownItem(dep) == "references unknown item: " \o dep
MsgUnknownArea(a) == "references unknown area: " \o a
MsgUnknownPhase(p) == "references unknown phase: " \o p
MsgRequiredFor(t) == "required for type " \o t
MsgUnknownType(t) == "unknown type: " \o t

ValidationError(field, message) == [Field |-> field, Message |-> message]

---------------------------------------------------------------------------
(* Helpers of Validate                                                     *)

\* A faulty addError: the error is appended and Valid is left as it was.
addErrorKeepsValid(res, field, message) ==
    [Valid |-> res.Valid,
     Errors |-> Append(res.Errors, ValidationError(field, message))]

\* A faulty addError: the error is put in front of the list.
addErrorPrepends(res, field, message) ==
    [Valid |-> FALSE,
     Errors |-> <<ValidationError(field, message)>> \o res.Errors]

\* (r *ValidationResult) addError
addError(res, field, message) ==
    [Valid |-> FALSE,
     Errors |-> Append(res.Errors, ValidationError(field, message))]

\* A faulty isValidStatus: the case list lacks StatusFuture.
isValidStatusNoFuture(s) ==
    s \in {StatusCompleted, StatusInProgress, StatusPlanned}

isValidStatus(s) ==
    s \in {StatusCompleted, StatusInProgress, StatusPlanned, StatusFuture}


\* changelog.DefaultRegistry: the change types of structured-changelog.
ChangeTypes ==
    {"Added", "Changed", "Deprecated", "Removed", "Fixed", "Security",
     "Highlights", "Breaking", "Performance", "Dependencies",
     "Documentation", "Build", "Infrastructure", "Internal"}

\* changelog.DefaultRegistry.IsValidName
IsValidName(name) == name \in ChangeTypes

Digits == {"0", "1", "2", "3", "4", "5", "6", "7", "8", "9"}

\* regexp.MustCompile(`^Q[1-4] \d{4}$`): the character classes the pattern
\* consumes one after the other, between the anchors ^ and $.
quarterRegex ==
    <<{"Q"}, {"1", "2", "3", "4"}, {" "}, Digits, Digits, Digits, Digits>>

\* The pattern re consumes exactly the characters s[from], ..., s[from+Len(re)-1].
MatchesAt(re, s, from) ==
    /\ from + Len(re) - 1 <= Len(s)
    /\ \A k \in 1..Len(re) : s[from + k - 1] \in re[k]

\* (*Regexp).MatchString for a pattern anchored by ^ and $ (Go's $ without the
\* m flag matches at the end of the text only).
MatchString(re, s) == MatchesAt(re, s, 1) /\ Len(s) = Len(re)

\* A faulty isValidQuarter: the pattern without its anchors, which matches
\* anywhere in the text.
isValidQuarterUnanchored(q) ==
    \E from \in 1..Len(q) : MatchesAt(quarterRegex, q, from)

isValidQuarter(q) == MatchString(quarterRegex, q)

\* A faulty validateContentBlock: blockquote is missing from the first case
\* and falls to the default.
validateContentBlockNoBlockquote(block, prefix) ==
    CASE block.Type \in {ContentTypeText, ContentTypeCode, ContentTypeDiagram} ->
            IF block.Value = ""
            THEN <<ValidationError(prefix \o ".value", MsgRequiredFor(block.Type))>>
            ELSE <<>>
      [] block.Type = ContentTypeTable ->
            IF Len(block.Headers) = 0
            THEN <<ValidationError(prefix \o ".headers", MsgRequiredFor("table"))>>
            ELSE <<>>
      [] block.Type = ContentTypeList ->
            IF Len(block.Items) = 0
            THEN <<ValidationError(prefix \o ".items", MsgRequiredFor("list"))>>
            ELSE <<>>
      [] block.Type = "" ->
            <<ValidationError(prefix \o ".type", MsgMissing)>>
      [] OTHER ->
            <<ValidationError(prefix \o ".type", MsgUnknownType(block.Type))>>

\* A faulty validateContentBlock: the case of the empty type is missing and
\* an empty type falls to the default.
validateContentBlockNoEmptyCase(block, prefix) ==
    CASE block.Type \in {ContentTypeText, ContentTypeCode, ContentTypeDiagram,
                         ContentTypeBlockquote} ->
            IF block.Value = ""
            THEN <<ValidationError(prefix \o ".value", MsgRequiredFor(block.Type))>>
            ELSE <<>>
      [] block.Type = ContentTypeTable ->
            IF Len(block.Headers) = 0
            THEN <<ValidationError(prefix \o ".headers", MsgRequiredFor("table"))>>
            ELSE <<>>
      [] block.Type = ContentTypeList ->
            IF Len(block.Items) = 0
            THEN <<ValidationError(prefix \o ".items", MsgRequiredFor("list"))>>
            ELSE <<>>
      [] OTHER ->
            <<ValidationError(prefix \o ".type", MsgUnknownType(block.Type))>>

\* A faulty validateContentBlock: the value is required of every block,
\* before the type is looked at.
validateContentBlockValueFirst(block, prefix) ==
    IF block.Value = ""
    THEN <<ValidationError(prefix \o ".value", MsgRequiredFor(block.Type))>>
    ELSE CASE block.Type \in {ContentTypeText, ContentTypeCode, ContentTypeDiagram,
                              ContentTypeBlockquote} -> <<>>
           [] block.Type = ContentTypeTable ->
                 IF Len(block.Headers) = 0
                 THEN <<ValidationError(prefix \o ".headers", MsgRequiredFor("table"))>>
                 ELSE <<>>
           [] block.Type = ContentTypeList ->
                 IF Len(block.Items) = 0
                 THEN <<ValidationError(prefix \o ".items", MsgRequiredFor("list"))>>
                 ELSE <<>>
           [] block.Type = "" ->
                 <<ValidationError(prefix \o ".type", MsgMissing)>>
           [] OTHER ->
                 <<ValidationError(prefix \o ".type", MsgUnknownType(block.Type))>>

\* validateContentBlock: the *ValidationError it returns, <<>> for nil.
validateContentBlock(block, prefix) ==
    CASE block.Type \in {ContentTypeText, ContentTypeCode, ContentTypeDiagram,
                         ContentTypeBlockquote} ->
            IF block.Value = ""
            THEN <<ValidationError(prefix \o ".value", MsgRequiredFor(block.Type))>>
            ELSE <<>>
      [] block.Type = ContentTypeTable ->
            IF Len(block.Headers) = 0
            THEN <<ValidationError(prefix \o ".headers", MsgRequiredFor("table"))>>
            ELSE <<>>
      [] block.Type = ContentTypeList ->
            IF Len(block.Items) = 0
            THEN <<ValidationError(prefix \o ".items", MsgRequiredFor("list"))>>
            ELSE <<>>
      [] block.Type = "" ->
            <<ValidationError(prefix \o ".type", MsgMissing)>>
      [] OTHER ->
            <<ValidationError(prefix \o ".type", MsgUnknownType(block.Type))>>

\* The caller's use of validateContentBlock: append *err and clear Valid.
appendBlockError(res, err) ==
    IF err # <<>>
    THEN [Valid |-> FALSE, Errors |-> Append(res.Errors, err[1])]
    ELSE res

\* for j, block := range content { ... }, from block j (from 0) on.
RECURSIVE contentLoop(_, _, _, _)
contentLoop(res, content, prefix, j) ==
    IF j >= Len(content) THEN res
    ELSE contentLoop(
             appendBlockError(
                 res,
                 validateContentBlock(content[j + 1],
                                      Indexed(prefix \o ".content", j))),
             content, prefix, j + 1)

---------------------------------------------------------------------------
(* Pass 1: root fields                                                     *)

\* A faulty checkIRVersion: only the presence of ir_version is checked.
checkIRVersionPresenceOnly(res, doc) ==
    IF doc.IRVersion = "" THEN addError(res, "ir_version", MsgMissing) ELSE res

checkIRVersion(res, doc) ==
    IF doc.IRVersion = "" THEN addError(res, "ir_version", MsgMissing)
    ELSE IF doc.IRVersion # "1.0"
         THEN addError(res, "ir_version", MsgUnsupportedVersion(doc.IRVersion))
         ELSE res

checkProject(res, doc) ==
    IF doc.Project = "" THEN addError(res, "project", MsgMissing) ELSE res

rootPass(res, doc) == checkProject(checkIRVersion(res, doc), doc)

---------------------------------------------------------------------------
(* Pass 2: items.  st = [res |-> the result, ids |-> the id map]           *)

\* A faulty checkID: an id seen is never recorded in the map.
checkIDNeverRecords(st, id, prefix) ==
    IF id = "" THEN [st EXCEPT !.res = addError(@, prefix \o ".id", MsgMissing)]
    ELSE IF id \in st.ids
         THEN [st EXCEPT !.res = addError(@, prefix \o ".id", MsgDuplicateID(id))]
         ELSE st

\* The id check shared in shape by items, areas, phases and sections.
checkID(st, id, prefix) ==
    IF id = "" THEN [st EXCEPT !.res = addError(@, prefix \o ".id", MsgMissing)]
    ELSE IF id \in st.ids
         THEN [st EXCEPT !.res = addError(@, prefix \o ".id", MsgDuplicateID(id))]
         ELSE [st EXCEPT !.ids = @ \cup {id}]

checkItemTitle(res, item, prefix) ==
    IF item.Title = "" THEN addError(res, prefix \o ".title", MsgMissing) ELSE res

checkItemStatus(res, item, prefix) ==
    IF item.Status = "" THEN addError(res, prefix \o ".status", MsgMissing)
    ELSE IF ~isValidStatus(item.Status)
         THEN addError(res, prefix \o ".status", MsgInvalidStatus(item.Status))
         ELSE res

checkItemQuarter(res, item, prefix) ==
    IF item.TargetQuarter # <<>> /\ ~isValidQuarter(item.TargetQuarter)
    THEN addError(res, prefix \o ".target_quarter",
                  MsgInvalidQuarter(item.TargetQuarter))
    ELSE res

\* A faulty checkItemType: an empty type is handed to the registry too.
checkItemTypeAlways(res, item, prefix) ==
    IF ~IsValidName(item.Type)
    THEN addError(res, prefix \o ".type", MsgInvalidType(item.Type))
    ELSE res

checkItemType(res, item, prefix) ==
    IF item.Type # "" /\ ~IsValidName(item.Type)
    THEN addError(res, prefix \o ".type", MsgInvalidType(item.Type))
    ELSE res

\* for j, task := range item.Tasks { ... }, from task j (from 0) on.
RECURSIVE tasksLoop(_, _, _, _)
tasksLoop(res, tasks, prefix, j) ==
    IF j >= Len(tasks) THEN res
    ELSE tasksLoop(
             IF tasks[j + 1].Description = ""
             THEN addError(res, Indexed(prefix \o ".tasks", j) \o ".description",
                           MsgMissing)
             ELSE res,
             tasks, prefix, j + 1)

\* The body of the item loop for item i (from 0).
checkItem(st, item, i) ==
    LET prefix == Indexed("items", i)
        st1 == checkID(st, item.ID, prefix)
        r2 == checkItemTitle(st1.res, item, prefix)
        r3 == checkItemStatus(r2, item, prefix)
        r4 == checkItemQuarter(r3, item, prefix)
        r5 == checkItemType(r4, item, prefix)
        r6 == tasksLoop(r5, item.Tasks, prefix, 0)
        r7 == contentLoop(r6, item.Content, prefix, 0)
    IN  [res |-> r7, ids |-> st1.ids]

RECURSIVE itemsLoop(_, _, _)
itemsLoop(st, items, i) ==
    IF i >= Len(items) THEN st
    ELSE itemsLoop(checkItem(st, items[i + 1], i), items, i + 1)

itemsPass(res, doc) == itemsLoop([res |-> res, ids |-> {}], doc.Items, 0)

---------------------------------------------------------------------------
(* Pass 3: depends_on references                                           *)

\* for _, dep := range item.DependsOn { ... }, from entry k (from 0) on.
RECURSIVE depsLoop(_, _, _, _, _)
depsLoop(res, deps, ids, i, k) ==
    IF k >= Len(deps) THEN res
    ELSE depsLoop(
             IF deps[k + 1] \notin ids
             THEN addError(res, Indexed("items", i) \o ".depends_on",
                           MsgUnknownItem(deps[k + 1]))
             ELSE res,
             deps, ids, i, k + 1)

RECURSIVE dependsLoop(_, _, _, _)
dependsLoop(res, items, ids, i) ==
    IF i >= Len(items) THEN res
    ELSE dependsLoop(depsLoop(res, items[i + 1].DependsOn, ids, i, 0),
                     items, ids, i + 1)

\* A faulty dependsPass: the entries of an item are checked against the ids
\* of the items up to and including it, as if inside the item loop.
RECURSIVE dependsLoopSeenSoFar(_, _, _)
dependsLoopSeenSoFar(res, items, i) ==
    IF i >= Len(items) THEN res
    ELSE dependsLoopSeenSoFar(
             depsLoop(res, items[i + 1].DependsOn,
                      {items[j].ID : j \in 1..(i + 1)} \ {""}, i, 0),
             items, i + 1)

dependsPassSeenSoFar(res, doc, ids) == dependsLoopSeenSoFar(res, doc.Items, 0)

dependsPass(res, doc, ids) == dependsLoop(res, doc.Items, ids, 0)

---------------------------------------------------------------------------
(* Pass 4: areas                                                           *)

checkArea(st, area, i) ==
    LET prefix == Indexed("areas", i)
        st1 == checkID(st, area.ID, prefix)
    IN  IF area.Name = ""
        THEN [st1 EXCEPT !.res = addError(@, prefix \o ".name", MsgMissing)]
        ELSE st1

RECURSIVE areasLoop(_, _, _)
areasLoop(st, areas, i) ==
    IF i >= Len(areas) THEN st
    ELSE areasLoop(checkArea(st, areas[i + 1], i), areas, i + 1)

areasPass(res, doc) == areasLoop([res |-> res, ids |-> {}], doc.Areas, 0)

---------------------------------------------------------------------------
(* Pass 5: phases                                                          *)

checkPhaseStatus(res, phase, prefix) ==
    IF phase.Status # "" /\ ~isValidStatus(phase.Status)
    THEN addError(res, prefix \o ".status", MsgInvalidStatus(phase.Status))
    ELSE res

checkPhase(st, phase, i) ==
    LET prefix == Indexed("phases", i)
        st1 == checkID(st, phase.ID, prefix)
        r2 == IF phase.Name = ""
              THEN addError(st1.res, prefix \o ".name", MsgMissing)
              ELSE st1.res
    IN  [res |-> checkPhaseStatus(r2, phase, prefix), ids |-> st1.ids]

RECURSIVE phasesLoop(_, _, _)
phasesLoop(st, phases, i) ==
    IF i >= Len(phases) THEN st
    ELSE phasesLoop(checkPhase(st, phases[i + 1], i), phases, i + 1)

phasesPass(res, doc) == phasesLoop([res |-> res, ids |-> {}], doc.Phases, 0)

---------------------------------------------------------------------------
(* Pass 6: item area/phase references                                      *)

\* A faulty checkItemArea: the reference is checked whether or not the
\* document has areas.
checkItemAreaUngated(res, doc, item, i, areas) ==
    IF item.Area # "" /\ item.Area \notin areas
    THEN addError(res, Indexed("items", i) \o ".area", MsgUnknownArea(item.Area))
    ELSE res

checkItemArea(res, doc, item, i, areas) ==
    IF item.Area # "" /\ Len(doc.Areas) > 0 /\ item.Area \notin areas
    THEN addError(res, Indexed("items", i) \o ".area", MsgUnknownArea(item.Area))
    ELSE res

checkItemPhase(res, doc, item, i, phases) ==
    IF item.Phase # "" /\ Len(doc.Phases) > 0 /\ item.Phase \notin phases
    THEN addError(res, Indexed("items", i) \o ".phase", MsgUnknownPhase(item.Phase))
    ELSE res

RECURSIVE refsLoop(_, _, _, _, _)
refsLoop(res, doc, areas, phases, i) ==
    IF i >= Len(doc.Items) THEN res
    ELSE refsLoop(
             checkItemPhase(
                 checkItemArea(res, doc, doc.Items[i + 1], i, areas),
                 doc, doc.Items[i + 1], i, phases),
             doc, areas, phases, i + 1)

refsPass(res, doc, areas, phases) == refsLoop(res, doc, areas, phases, 0)

---------------------------------------------------------------------------
(* Pass 7: sections                                                        *)

checkSection(st, section, i) ==
    LET prefix == Indexed("sections", i)
        st1 == checkID(st, section.ID, prefix)
        r2 == IF section.Title = ""
              THEN addError(st1.res, prefix \o ".title", MsgMissing)
              ELSE st1.res
    IN  [res |-> contentLoop(r2, section.Content, prefix, 0), ids |-> st1.ids]

RECURSIVE sectionsLoop(_, _, _)
sectionsLoop(st, sections, i) ==
    IF i >= Len(sections) THEN st
    ELSE sectionsLoop(checkSection(st, sections[i + 1], i), sections, i + 1)

\* A faulty sectionsPass: the sections are skipped once an error is recorded.
sectionsPassShortCircuit(res, doc) ==
    IF ~res.Valid THEN [res |-> res, ids |-> {}]
    ELSE sectionsLoop([res |-> res, ids |-> {}], doc.Sections, 0)

sectionsPass(res, doc) ==
    sectionsLoop([res |-> res, ids |-> {}], doc.Sections, 0)

---------------------------------------------------------------------------
(* Derived views: the groupings of the items                               *)
(*                                                                         *)
(* A Go map is the function on its keys; make(map...) is the function on   *)
(* no key.  A map[string][]Item holds under each key a sequence of items.  *)

NoView == [op |-> "", value |-> <<>>]

EmptyMap == <<>>

\* A faulty appendToBucket: the bucket is replaced by the item.
appendToBucketReplaces(m, key, item) ==
    IF key \in DOMAIN m
    THEN [m EXCEPT ![key] = <<item>>]
    ELSE (key :> <<item>>) @@ m

\* A faulty appendToBucket: the item is put in front of the bucket.
appendToBucketInFront(m, key, item) ==
    IF key \in DOMAIN m
    THEN [m EXCEPT ![key] = <<item>> \o @]
    ELSE (key :> <<item>>) @@ m

\* result[key] = append(result[key], item)
appendToBucket(m, key, item) ==
    IF key \in DOMAIN m
    THEN [m EXCEPT ![key] = Append(@, item)]
    ELSE (key :> <<item>>) @@ m

\* The key each grouping files an item under.
areaKey(item) == IF item.Area = "" THEN "_unspecified" ELSE item.Area

typeKey(item) == IF item.Type = "" THEN "_unspecified" ELSE item.Type

\* A faulty phaseKey: the sentinel of the areas.
phaseKeyUnspecified(item) == IF item.Phase = "" THEN "_unspecified" ELSE item.Phase

phaseKey(item) == IF item.Phase = "" THEN "_unphased" ELSE item.Phase

\* A faulty statusKey: an empty status under the sentinel of the areas.
statusKeyUnspecified(item) ==
    IF item.Status = "" THEN "_unspecified" ELSE item.Status

statusKey(item) == item.Status

quarterKey(item) ==
    IF Str(item.TargetQuarter) = "" THEN "_unscheduled" ELSE Str(item.TargetQuarter)

priorityKey(item) == IF item.Priority = "" THEN "_unspecified" ELSE item.Priority

\* for _, item := range r.Items { ... }, from item i (from 0) on; keys[i + 1]
\* is the key of item i.
RECURSIVE groupLoop(_, _, _, _)
groupLoop(m, items, keys, i) ==
    IF i >= Len(items) THEN m
    ELSE groupLoop(appendToBucket(m, keys[i + 1], items[i + 1]), items, keys, i + 1)

ItemsByArea(doc) ==
    groupLoop(EmptyMap, doc.Items,
              [i \in 1..Len(doc.Items) |-> areaKey(doc.Items[i])], 0)

ItemsByType(doc) ==
    groupLoop(EmptyMap, doc.Items,
              [i \in 1..Len(doc.Items) |-> typeKey(doc.Items[i])], 0)

ItemsByPhase(doc) ==
    groupLoop(EmptyMap, doc.Items,
              [i \in 1..Len(doc.Items) |-> phaseKey(doc.Items[i])], 0)

ItemsByStatus(doc) ==
    groupLoop(EmptyMap, doc.Items,
              [i \in 1..Len(doc.Items) |-> statusKey(doc.Items[i])], 0)

ItemsByQuarter(doc) ==
    groupLoop(EmptyMap, doc.Items,
              [i \in 1..Len(doc.Items) |-> quarterKey(doc.Items[i])], 0)

ItemsByPriority(doc) ==
    groupLoop(EmptyMap, doc.Items,
              [i \in 1..Len(doc.Items) |-> priorityKey(doc.Items[i])], 0)

---------------------------------------------------------------------------
(* Derived views: statistics                                               *)
(*                                                                         *)
(* A map[...]int is the function on its keys; m[key]++ on an absent key    *)
(* makes it 1 and a read of an absent key gives 0.  A float64 is the exact *)
(* quotient num/den of two integers, a NaN or an infinity; the rounding of *)
(* a quotient to 53 bits is left out.                                      *)

\* m[key]++
increment(m, key) ==
    IF key \in DOMAIN m THEN [m EXCEPT ![key] = @ + 1] ELSE (key :> 1) @@ m

\* A faulty countItem: area, type and priority are counted when empty too.
countItemAlways(stats, item) ==
    [stats EXCEPT !.ByStatus = increment(@, item.Status),
                  !.ByArea = increment(@, item.Area),
                  !.ByType = increment(@, item.Type),
                  !.ByPriority = increment(@, item.Priority)]

\* The body of the loop of Stats.
countItem(stats, item) ==
    [stats EXCEPT
        !.ByStatus = increment(@, item.Status),
        !.ByArea = IF item.Area # "" THEN increment(@, item.Area) ELSE @,
        !.ByType = IF item.Type # "" THEN increment(@, item.Type) ELSE @,
        !.ByPriority = IF item.Priority # "" THEN increment(@, item.Priority) ELSE @]

\* for _, item := range r.Items { ... }, from item i (from 0) on.
RECURSIVE statsLoop(_, _, _)
statsLoop(stats, items, i) ==
    IF i >= Len(items) THEN stats
    ELSE statsLoop(countItem(stats, items[i + 1]), items, i + 1)

Stats(doc) ==
    statsLoop([Total |-> Len(doc.Items), ByStatus |-> EmptyMap, ByArea |-> EmptyMap,
               ByType |-> EmptyMap, ByPriority |-> EmptyMap],
              doc.Items, 0)

CompletedCount(s) ==
    IF StatusCompleted \in DOMAIN s.ByStatus THEN s.ByStatus[StatusCompleted] ELSE 0

\* float64(n), x / y and x * y of float64; the operands here are never
\* negative.
Float64(n) == [kind |-> "finite", num |-> n, den |-> 1]

NaN == [kind |-> "NaN", num |-> 0, den |-> 0]

Inf == [kind |-> "Inf", num |-> 0, den |-> 0]

Quo(x, y) ==
    IF x.kind = "NaN" \/ y.kind = "NaN" THEN NaN
    ELSE IF x.kind = "Inf" THEN (IF y.kind = "Inf" THEN NaN ELSE Inf)
    ELSE IF y.kind = "Inf" THEN Float64(0)
    ELSE IF y.num = 0 THEN (IF x.num = 0 THEN NaN ELSE Inf)
    ELSE [kind |-> "finite", num |-> x.num * y.den, den |-> x.den * y.num]

Mul(x, y) ==
    IF x.kind = "NaN" \/ y.kind = "NaN" THEN NaN
    ELSE IF x.kind = "Inf" \/ y.kind = "Inf"
         THEN (IF (x.kind = "finite" /\ x.num = 0) \/ (y.kind = "finite" /\ y.num = 0)
               THEN NaN ELSE Inf)
    ELSE [kind |-> "finite", num |-> x.num * y.num, den |-> x.den * y.den]

\* A faulty CompletedPercent: the quotient is taken whatever the total.
CompletedPercentUnguarded(s) ==
    Mul(Quo(Float64(CompletedCount(s)), Float64(s.Total)), Float64(100))

CompletedPercent(s) ==
    IF s.Total = 0 THEN Float64(0)
    ELSE Mul(Quo(Float64(CompletedCount(s)), Float64(s.Total)), Float64(100))

---------------------------------------------------------------------------
(* The order of the priorities                                             *)

\* A faulty PriorityOrder: a priority that is none of the four comes first.
PriorityOrderDefaultFirst(p) ==
    CASE p = PriorityCritical -> 1
      [] p = PriorityHigh -> 2
      [] p = PriorityMedium -> 3
      [] p = PriorityLow -> 4
      [] OTHER -> 0

PriorityOrder(p) ==
    CASE p = PriorityCritical -> 1
      [] p = PriorityHigh -> 2
      [] p = PriorityMedium -> 3
      [] p = PriorityLow -> 4
      [] OTHER -> 5

---------------------------------------------------------------------------
(* Derived views: the legend                                               *)
(*                                                                         *)
(* The four emoji of the default legend are written by their names.        *)

LegendEntry(emoji, description) == [Emoji |-> emoji, Description |-> description]

DefaultLegend ==
    (StatusCompleted :> LegendEntry("white_check_mark", "Completed"))
    @@ (StatusInProgress :> LegendEntry("construction", "In Progress"))
    @@ (StatusPlanned :> LegendEntry("clipboard", "Planned"))
    @@ (StatusFuture :> LegendEntry("bulb", "Under Consideration"))

\* for k, v := range custom { legend[k] = v }: the writes are to different
\* keys, so the order the map is ranged over does not show in the result.
overlay(legend, custom) ==
    [k \in DOMAIN legend \cup DOMAIN custom |->
        IF k \in DOMAIN custom THEN custom[k] ELSE legend[k]]

\* A faulty GetLegend: the document's legend replaces the default.
GetLegendReplaces(doc) ==
    IF Cardinality(DOMAIN doc.Legend) > 0 THEN doc.Legend ELSE DefaultLegend

GetLegend(doc) ==
    IF Cardinality(DOMAIN doc.Legend) > 0
    THEN overlay(DefaultLegend, doc.Legend)
    ELSE DefaultLegend

\* The emoji of the legend's entry for the status, "" without an entry.
emojiOf(legend, status) ==
    IF status \in DOMAIN legend THEN legend[status].Emoji ELSE ""

\* A faulty GetStatusEmoji: the default legend is looked up, not the
\* document's.
GetStatusEmojiOfDefault(doc, status) == emojiOf(DefaultLegend, status)

GetStatusEmoji(doc, status) == emojiOf(GetLegend(doc), status)

---------------------------------------------------------------------------
(* The codec: encoding/json driven by the struct tags                      *)

\* A JSON value.  The bytes of a well-formed text are kept as the value they
\* spell: an object is the function on its keys, an array a sequence.
JNull == [kind |-> "null"]

JString(s) == [kind |-> "string", val |-> s]

JNumber(n) == [kind |-> "number", val |-> n]

JBool(b) == [kind |-> "bool", val |-> b]

JArray(a) == [kind |-> "array", val |-> a]

JObject(o) == [kind |-> "object", val |-> o]

\* The Go types of the fields.  TChars is a string kept by its characters
\* (TargetQuarter); TTime is *time.Time; TPtr is a pointer to a struct.
TString == [k |-> "string"]

TChars == [k |-> "chars"]

TInt == [k |-> "int"]

TBool == [k |-> "bool"]

TTime == [k |-> "time"]

TSlice(elem) == [k |-> "slice", elem |-> elem]

TMap(elem) == [k |-> "map", elem |-> elem]

TStruct(name) == [k |-> "struct", name |-> name]

TPtr(name) == [k |-> "ptr", name |-> name]

\* A field of a struct with its tag `json:"key"` or `json:"key,omitempty"`.
F(name, key, omitempty, type) ==
    [name |-> name, key |-> key, omitempty |-> omitempty, type |-> type]

RoadmapFields ==
    <<F("IRVersion", "ir_version", FALSE, TString),
      F("Project", "project", FALSE, TString),
      F("Repository", "repository", TRUE, TString),
      F("GeneratedAt", "generated_at", TRUE, TTime),
      F("Legend", "legend", TRUE, TMap(TStruct("LegendEntry"))),
      F("Areas", "areas", TRUE, TSlice(TStruct("Area"))),
      F("Phases", "phases", TRUE, TSlice(TStruct("Phase"))),
      F("Items", "items", TRUE, TSlice(TStruct("Item"))),
      F("Sections", "sections", TRUE, TSlice(TStruct("Section"))),
      F("VersionHistory", "version_history", TRUE, TSlice(TStruct("VersionEntry"))),
      F("Dependencies", "dependencies", TRUE, TPtr("Dependencies"))>>

LegendEntryFields ==
    <<F("Emoji", "emoji", FALSE, TString),
      F("Description", "description", FALSE, TString)>>

AreaFields ==
    <<F("ID", "id", FALSE, TString),
      F("Name", "name", FALSE, TString),
      F("Priority", "priority", TRUE, TInt)>>

PhaseFields ==
    <<F("ID", "id", FALSE, TString),
      F("Name", "name", FALSE, TString),
      F("Status", "status", TRUE, TString),
      F("Order", "order", TRUE, TInt),
      F("Description", "description", TRUE, TString)>>

\* The item's fields with the tag of TargetQuarter repeated on TargetVersion.
ItemFieldsDuplicateTag ==
    <<F("ID", "id", FALSE, TString),
      F("Title", "title", FALSE, TString),
      F("Description", "description", TRUE, TString),
      F("Status", "status", FALSE, TString),
      F("Version", "version", TRUE, TString),
      F("CompletedDate", "completed_date", TRUE, TString),
      F("TargetQuarter", "target_quarter", TRUE, TChars),
      F("TargetVersion", "target_quarter", TRUE, TString),
      F("Area", "area", TRUE, TString),
      F("Type", "type", TRUE, TString),
      F("Phase", "phase", TRUE, TString),
      F("Priority", "priority", TRUE, TString),
      F("Order", "order", TRUE, TInt),
      F("DependsOn", "depends_on", TRUE, TSlice(TString)),
      F("Tasks", "tasks", TRUE, TSlice(TStruct("Task"))),
      F("Content", "content", TRUE, TSlice(TStruct("ContentBlock")))>>

ItemFields ==
    <<F("ID", "id", FALSE, TString),
      F("Title", "title", FALSE, TString),
      F("Description", "description", TRUE, TString),
      F("Status", "status", FALSE, TString),
      F("Version", "version", TRUE, TString),
      F("CompletedDate", "completed_date", TRUE, TString),
      F("TargetQuarter", "target_quarter", TRUE, TChars),
      F("TargetVersion", "target_version", TRUE, TString),
      F("Area", "area", TRUE, TString),
      F("Type", "type", TRUE, TString),
      F("Phase", "phase", TRUE, TString),
      F("Priority", "priority", TRUE, TString),
      F("Order", "order", TRUE, TInt),
      F("DependsOn", "depends_on", TRUE, TSlice(TString)),
      F("Tasks", "tasks", TRUE, TSlice(TStruct("Task"))),
      F("Content", "content", TRUE, TSlice(TStruct("ContentBlock")))>>

TaskFields ==
    <<F("ID", "id", TRUE, TString),
      F("Description", "description", FALSE, TString),
      F("Completed", "completed", FALSE, TBool),
      F("FilePath", "file_path", TRUE, TString)>>

ContentBlockFields ==
    <<F("Type", "type", FALSE, TString),
      F("Value", "value", TRUE, TString),
      F("Language", "language", TRUE, TString),
      F("Format", "format", TRUE, TString),
      F("Headers", "headers", TRUE, TSlice(TString)),
      F("Rows", "rows", TRUE, TSlice(TSlice(TString))),
      F("Items", "items", TRUE, TSlice(TString))>>

SectionFields ==
    <<F("ID", "id", FALSE, TString),
      F("Title", "title", FALSE, TString),
      F("Order", "order", TRUE, TInt),
      F("Content", "content", TRUE, TSlice(TStruct("ContentBlock")))>>

VersionEntryFields ==
    <<F("Version", "version", FALSE, TString),
      F("Date", "date", TRUE, TString),
      F("Status", "status", TRUE, TString),
      F("Summary", "summary", TRUE, TString)>>

DependenciesFields ==
    <<F("External", "external", TRUE, TSlice(TStruct("ExternalDependency"))),
      F("Internal", "internal", TRUE, TSlice(TStruct("InternalDependency")))>>

ExternalDependencyFields ==
    <<F("Name", "name", FALSE, TString),
      F("Status", "status", TRUE, TString),
      F("Note", "note", TRUE, TString)>>

InternalDependencyFields ==
    <<F("Package", "package", FALSE, TString),
      F("DependsOn", "depends_on", TRUE, TSlice(TString))>>

StructFields(name) ==
    CASE name = "Roadmap" -> RoadmapFields
      [] name = "LegendEntry" -> LegendEntryFields
      [] name = "Area" -> AreaFields
      [] name = "Phase" -> PhaseFields
      [] name = "Item" -> ItemFields
      [] name = "Task" -> TaskFields
      [] name = "ContentBlock" -> ContentBlockFields
      [] name = "Section" -> SectionFields
      [] name = "VersionEntry" -> VersionEntryFields
      [] name = "Dependencies" -> DependenciesFields
      [] name = "ExternalDependency" -> ExternalDependencyFields
      [] name = "InternalDependency" -> InternalDependencyFields

ZeroStruct(name) ==
    CASE name = "Roadmap" -> ZeroRoadmap
      [] name = "LegendEntry" -> LegendEntry("", "")
      [] name = "Area" -> ZeroArea
      [] name = "Phase" -> ZeroPhase
      [] name = "Item" -> ZeroItem
      [] name = "Task" -> ZeroTask
      [] name = "ContentBlock" -> ZeroContentBlock
      [] name = "Section" -> ZeroSection
      [] name = "VersionEntry" -> ZeroVersionEntry
      [] name = "Dependencies" -> [External |-> <<>>, Internal |-> <<>>]
      [] name = "ExternalDependency" -> ZeroExternalDependency
      [] name = "InternalDependency" -> ZeroInternalDependency

\* The fields encoding/json reads and writes: two fields of one struct tagged
\* with the same key hide each other.
VisibleFields(name) ==
    LET fs == StructFields(name)
    IN  {fs[i] : i \in {j \in DOMAIN fs :
                          \A h \in DOMAIN fs : fs[h].key = fs[j].key => h = j}}

\* A string is valid UTF-8 unless it is the one written here, which holds the
\* byte 0xFF; the encoder writes U+FFFD for an invalid byte.
InvalidUTF8 == "<0xFF>"

ReplacementChar == "<U+FFFD>"

ToValidUTF8(s) == IF s = InvalidUTF8 THEN ReplacementChar ELSE s

\* The text of a time is the text of its year, and a text is a time if it is
\* the text of a year RFC 3339 can write.
TimeText(year) == "year " \o ToString(year)

Years == {1, 2026, 9999, 10000}

IsTimeText(s) == \E y \in Years : y \in 0..9999 /\ s = TimeText(y)

ParseTime(s) == CHOOSE y \in Years : s = TimeText(y)

\* isEmptyValue: what omitempty leaves out.  A struct is never empty.
isEmptyValue(v, t) ==
    CASE t.k = "string" -> v = ""
      [] t.k = "chars" -> Len(v) = 0
      [] t.k = "int" -> v = 0
      [] t.k = "bool" -> v = FALSE
      [] t.k = "time" -> ~v.set
      [] t.k = "ptr" -> ~v.set
      [] t.k = "slice" -> Len(v) = 0
      [] t.k = "map" -> DOMAIN v = {}
      [] t.k = "struct" -> FALSE

JError == [kind |-> "error"]

\* json.Marshal of a value of a type.  A time whose year is outside 0..9999
\* is an error, and so is whatever holds it.
RECURSIVE Encode(_, _)
Encode(v, t) ==
    CASE t.k = "string" -> JString(ToValidUTF8(v))
      [] t.k = "chars" -> JString([i \in DOMAIN v |-> ToValidUTF8(v[i])])
      [] t.k = "int" -> JNumber(v)
      [] t.k = "bool" -> JBool(v)
      [] t.k = "time" ->
            IF ~v.set THEN JNull
            ELSE IF v.year \in 0..9999 THEN JString(TimeText(v.year))
            ELSE JError
      [] t.k = "slice" ->
            LET a == [i \in DOMAIN v |-> Encode(v[i], t.elem)]
            IN  IF \E i \in DOMAIN a : a[i].kind = "error" THEN JError ELSE JArray(a)
      [] t.k = "map" ->
            LET o == [key \in {ToValidUTF8(x) : x \in DOMAIN v} |->
                        Encode(v[CHOOSE x \in DOMAIN v : ToValidUTF8(x) = key],
                               t.elem)]
            IN  IF \E key \in DOMAIN o : o[key].kind = "error" THEN JError
                ELSE JObject(o)
      [] t.k = "ptr" ->
            IF ~v.set THEN JNull ELSE Encode(v, TStruct(t.name))
      [] t.k = "struct" ->
            LET written == {f \in VisibleFields(t.name) :
                              ~(f.omitempty /\ isEmptyValue(v[f.name], f.type))}
                o == [key \in {f.key : f \in written} |->
                        LET f == CHOOSE g \in written : g.key = key
                        IN  Encode(v[f.name], f.type)]
            IN  IF \E key \in DOMAIN o : o[key].kind = "error" THEN JError
                ELSE JObject(o)

\* The zero value of a type.
Zero(t) ==
    CASE t.k = "string" -> ""
      [] t.k = "chars" -> <<>>
      [] t.k = "int" -> 0
      [] t.k = "bool" -> FALSE
      [] t.k = "time" -> NilTime
      [] t.k = "ptr" -> NilDependencies
      [] t.k = "slice" -> <<>>
      [] t.k = "map" -> <<>>
      [] t.k = "struct" -> ZeroStruct(t.name)

\* Whether json.Unmarshal stores a JSON value in a value of a type without an
\* error.  null fits every type; a key no field is tagged with is skipped.
RECURSIVE Fits(_, _)
Fits(j, t) ==
    \/ j.kind = "null"
    \/ CASE t.k \in {"string", "chars"} -> j.kind = "string"
         [] t.k = "int" -> j.kind = "number"
         [] t.k = "bool" -> j.kind = "bool"
         [] t.k = "time" -> j.kind = "string" /\ IsTimeText(j.val)
         [] t.k = "slice" ->
               j.kind = "array" /\ \A i \in DOMAIN j.val : Fits(j.val[i], t.elem)
         [] t.k = "map" ->
               j.kind = "object"
               /\ \A key \in DOMAIN j.val : Fits(j.val[key], t.elem)
         [] t.k \in {"ptr", "struct"} ->
               j.kind = "object"
               /\ \A f \in VisibleFields(t.name) :
                     f.key \in DOMAIN j.val => Fits(j.val[f.key], f.type)

\* json.Unmarshal of a JSON value that fits into a zero value of a type: null
\* and an absent key leave the zero value.
RECURSIVE Decode(_, _)
Decode(j, t) ==
    IF j.kind = "null" THEN Zero(t)
    ELSE CASE t.k \in {"string", "chars", "int", "bool"} -> j.val
           [] t.k = "time" -> [set |-> TRUE, year |-> ParseTime(j.val)]
           [] t.k = "slice" -> [i \in DOMAIN j.val |-> Decode(j.val[i], t.elem)]
           [] t.k = "map" ->
                 [key \in DOMAIN j.val |-> Decode(j.val[key], t.elem)]
           [] t.k = "ptr" ->
                 [n \in DOMAIN NilDependencies |->
                     IF n = "set" THEN TRUE
                     ELSE Decode(j, TStruct(t.name))[n]]
           [] t.k = "struct" ->
                 [n \in DOMAIN ZeroStruct(t.name) |->
                     IF \E f \in VisibleFields(t.name) :
                            f.name = n /\ f.key \in DOMAIN j.val
                     THEN LET f == CHOOSE g \in VisibleFields(t.name) : g.name = n
                          IN  Decode(j.val[f.key], f.type)
                     ELSE ZeroStruct(t.name)[n]]

\* An error value: the errors that errors.Is finds by unwrapping it, outermost
\* first, and its message.  nil has neither.
NoError == [chain |-> <<>>, text |-> ""]

NewError(name, text) == [chain |-> <<name>>, text |-> text]

Is(err, target) == \E i \in DOMAIN err.chain : err.chain[i] = target.chain[1]

\* The sentinels of the package.
ErrReadFile == NewError("ErrReadFile", "failed to read file")

ErrParseJSON == NewError("ErrParseJSON", "failed to parse JSON")

ErrWriteFile == NewError("ErrWriteFile", "failed to write file")

\* The errors of the libraries.
SyntaxError == NewError("*json.SyntaxError", "invalid character")

UnmarshalTypeError == NewError("*json.UnmarshalTypeError", "cannot unmarshal")

MarshalerError == NewError("*json.MarshalerError", "year outside of range [0,9999]")

\* fmt.Errorf("%w: %v", sentinel, err): %w wraps the sentinel, %v writes the
\* message of err and nothing more of it.
Errorf(sentinel, err) ==
    [chain |-> <<"*fmt.wrapError">> \o sentinel.chain,
     text |-> sentinel.text \o ": " \o err.text]

\* A []byte: the text of a JSON value, or a text that is no JSON.
Text(j) == [wellformed |-> TRUE, json |-> j]

Malformed == [wellformed |-> FALSE, json |-> JNull]

\* json.MarshalIndent(r, "", "  ") and json.Unmarshal(data, &r).
MarshalIndent(doc) ==
    LET j == Encode(doc, TStruct("Roadmap"))
    IN  IF j.kind = "error" THEN [data |-> Malformed, err |-> MarshalerError]
        ELSE [data |-> Text(j), err |-> NoError]

Unmarshal(data) ==
    IF ~data.wellformed THEN [r |-> ZeroRoadmap, err |-> SyntaxError]
    ELSE IF ~Fits(data.json, TStruct("Roadmap"))
         THEN [r |-> ZeroRoadmap, err |-> UnmarshalTypeError]
    ELSE [r |-> Decode(data.json, TStruct("Roadmap")), err |-> NoError]

\* A *Roadmap: nil, or a pointer to a document.
NilRoadmap == <<>>

PtrTo(doc) == <<doc>>

ToJSON(doc) == MarshalIndent(doc)

Parse(data) ==
    LET u == Unmarshal(data)
    IN  IF u.err # NoError
        THEN [r |-> NilRoadmap, err |-> Errorf(ErrParseJSON, u.err)]
        ELSE [r |-> PtrTo(u.r), err |-> NoError]

\* A file: whether it exists, whether the process may open it (or create it
\* where it does not exist), and its bytes.
File(exists, allowed, data) ==
    [exists |-> exists, allowed |-> allowed, data |-> data]

Paths == {"ROADMAP.json", "/nonexistent/file.json", "locked.json"}

NoFiles == [path \in Paths |-> File(FALSE, FALSE, Malformed)]

PathError == NewError("*fs.PathError", "open: no such file or permission denied")

WriteError == NewError("*fs.PathError", "write: no space left on device")

\* os.ReadFile(path).
ReadFile(fs, path) ==
    IF fs[path].exists /\ fs[path].allowed
    THEN [data |-> fs[path].data, err |-> NoError]
    ELSE [data |-> Malformed, err |-> PathError]

\* ParseFile(path) on a file system.
ParseFile(fs, path) ==
    LET f == ReadFile(fs, path)
    IN  IF f.err # NoError
        THEN [r |-> NilRoadmap, err |-> Errorf(ErrReadFile, f.err)]
        ELSE Parse(f.data)

\* os.WriteFile(path, data, 0600): the outcomes.  The file is opened, created
\* or truncated, and written; a write that fails leaves it cut short.
OSWriteFile(fs, path, data) ==
    IF ~fs[path].allowed THEN {[fs |-> fs, err |-> PathError]}
    ELSE {[fs |-> [fs EXCEPT ![path] = File(TRUE, TRUE, data)], err |-> NoError],
          [fs |-> [fs EXCEPT ![path] = File(TRUE, TRUE, Malformed)],
           err |-> WriteError]}

\* WriteFile(path, r): the outcomes.
WriteFile(fs, path, doc) ==
    LET m == MarshalIndent(doc)
    IN  IF m.err # NoError
        THEN {[fs |-> fs, err |-> Errorf(ErrWriteFile, m.err)]}
        ELSE {[fs |-> w.fs,
               err |-> IF w.err # NoError THEN Errorf(ErrWriteFile, w.err)
                       ELSE NoError] : w \in OSWriteFile(fs, path, m.data)}

---------------------------------------------------------------------------
(* The documents Validate is run on                                        *)

\* Bounds of the model.
MaxElems == 2    \* longest collection of a document whose elements vary
MaxIDs == 3      \* longest collection of a document where only the ids vary
MaxDeps == 2     \* longest depends_on list
MaxBlocks == 1   \* longest content list

SeqsUpTo(S, n) == UNION {[1..k -> S] : k \in 0..n}

\* The characters of a short text, for target_quarter values.
Chars(a, b, c, tail) == <<a, b, c>> \o tail

Minimal == [ZeroRoadmap EXCEPT !.IRVersion = "1.0", !.Project = "test"]

GoodItem(id) ==
    [ZeroItem EXCEPT !.ID = id, !.Title = "Feature", !.Status = StatusPlanned]

GoodArea(id) == [ZeroArea EXCEPT !.ID = id, !.Name = "Area"]

GoodPhase(id) == [ZeroPhase EXCEPT !.ID = id, !.Name = "Phase"]

GoodSection(id) == [ZeroSection EXCEPT !.ID = id, !.Title = "Section"]

\* Lists of such elements with the ids given.
GoodItems(ids) == [i \in 1..Len(ids) |-> GoodItem(ids[i])]

GoodAreas(ids) == [i \in 1..Len(ids) |-> GoodArea(ids[i])]

GoodPhases(ids) == [i \in 1..Len(ids) |-> GoodPhase(ids[i])]

GoodSections(ids) == [i \in 1..Len(ids) |-> GoodSection(ids[i])]

\* The items of a list given the ids item-0, item-1, ... by position.
Numbered(items) ==
    [i \in 1..Len(items) |-> [items[i] EXCEPT !.ID = "item-" \o ToString(i - 1)]]

IDs == {"", "item-1", "core"}

\* Each family of documents below is a predicate on r: the document is one
\* of the family.

\* Root fields.
RootDocs ==
    \E v \in {"", "1.0", "2.0", "1"}, p \in {"", "test"},
       it \in {<<>>, <<GoodItem("item-1")>>} :
        r = [Minimal EXCEPT !.IRVersion = v, !.Project = p, !.Items = it]

\* One collection, only its ids varying.
SingleIdDocs ==
    \E a \in SeqsUpTo(IDs, MaxIDs) :
        \/ r = [Minimal EXCEPT !.Items = GoodItems(a)]
        \/ r = [Minimal EXCEPT !.Areas = GoodAreas(a)]
        \/ r = [Minimal EXCEPT !.Phases = GoodPhases(a)]
        \/ r = [Minimal EXCEPT !.Sections = GoodSections(a)]

\* The same ids in several collections.
CrossIdDocs ==
    \E a \in SeqsUpTo(IDs, MaxElems), b \in SeqsUpTo(IDs, MaxElems) :
        \/ r = [Minimal EXCEPT !.Items = GoodItems(a),
                               !.Areas = GoodAreas(b)]
        \/ r = [Minimal EXCEPT !.Items = GoodItems(a),
                               !.Phases = GoodPhases(b)]
        \/ r = [Minimal EXCEPT !.Items = GoodItems(a),
                               !.Sections = GoodSections(b)]
        \/ r = [Minimal EXCEPT !.Areas = GoodAreas(a),
                               !.Phases = GoodPhases(b),
                               !.Sections = GoodSections(b)]

\* Required fields and the status of items, areas, phases and sections.
FieldItems ==
    {[ZeroItem EXCEPT !.ID = id, !.Title = t, !.Status = s] :
        id \in {"", "item-1"}, t \in {"", "Feature"},
        s \in {"", StatusPlanned, "done"}}

FieldAreas ==
    {[ZeroArea EXCEPT !.ID = id, !.Name = n] : id \in {"", "core"}, n \in {"", "Core"}}

FieldPhases ==
    {[ZeroPhase EXCEPT !.ID = id, !.Name = n, !.Status = s] :
        id \in {"", "phase-1"}, n \in {"", "Phase 1"},
        s \in {"", StatusCompleted, "done"}}

FieldSections ==
    {[ZeroSection EXCEPT !.ID = id, !.Title = t] :
        id \in {"", "intro"}, t \in {"", "Intro"}}

FieldDocs ==
    \/ \E a \in SeqsUpTo(FieldItems, MaxElems) : r = [Minimal EXCEPT !.Items = a]
    \/ \E a \in SeqsUpTo(FieldAreas, MaxElems) : r = [Minimal EXCEPT !.Areas = a]
    \/ \E a \in SeqsUpTo(FieldPhases, MaxElems) : r = [Minimal EXCEPT !.Phases = a]
    \/ \E a \in SeqsUpTo(FieldSections, MaxElems) :
          r = [Minimal EXCEPT !.Sections = a]

StatusValues ==
    {"", StatusCompleted, StatusInProgress, StatusPlanned, StatusFuture,
     "done", "Completed"}

StatusDocs ==
    \E s \in StatusValues, t \in StatusValues :
        r = [Minimal EXCEPT
                !.Items = <<[GoodItem("item-1") EXCEPT !.Status = s]>>,
                !.Phases = <<[GoodPhase("phase-1") EXCEPT !.Status = t]>>]

\* target_quarter values: texts of the shape <a><b><c><tail>, with or without
\* a leading space, and some of other shapes.
Quarters ==
    {p \o Chars(a, b, c, tail) :
        p \in {<<>>, <<" ">>}, a \in {"Q", "q"}, b \in {"0", "1", "2", "4", "5"},
        c \in {" ", "-"},
        tail \in {<<"2", "0", "2", "6">>, <<"0", "0", "0", "0">>,
                  <<"2", "6">>, <<"2", "0", "2", "6", "5">>,
                  <<"2", "0", "2", "x">>, <<"2", "0", "2", "6", "\n">>}}
    \cup {<<>>, <<"Q">>, <<"2", "0", "2", "6", "-", "Q", "2">>,
          <<"Q", "2", "2", "0", "2", "6">>,
          <<"Q", "2", " ", "2", "0", "2", "6", " ">>}

QuarterDocs ==
    \E q \in Quarters :
        \/ r = [Minimal EXCEPT
                  !.Items = <<[GoodItem("item-1") EXCEPT !.TargetQuarter = q]>>]
        \/ r = [Minimal EXCEPT
                  !.Items = <<GoodItem("item-1"),
                              [GoodItem("item-2") EXCEPT !.TargetQuarter = q]>>]

\* Change types, with the same names in fields the registry is not asked about.
TypedItems ==
    {[GoodItem(o) EXCEPT !.Type = t, !.Title = o, !.Area = o, !.Phase = o,
                         !.Priority = o, !.DependsOn = <<o>>,
                         !.Tasks = <<[ZeroTask EXCEPT !.Description = o]>>] :
        t \in {"", "Added", "Security", "InvalidType"},
        o \in {"Added", "InvalidType"}}

TypeDocs ==
    \E o \in {"Added", "InvalidType"}, a \in SeqsUpTo(TypedItems, MaxElems) :
        r = [Minimal EXCEPT !.Project = o, !.Items = a,
                            !.Sections = <<[GoodSection(o) EXCEPT !.Title = o]>>]

\* Tasks.
TaskItems ==
    {[GoodItem("item-1") EXCEPT !.Tasks = ts] :
        ts \in SeqsUpTo({[ZeroTask EXCEPT !.Description = d] : d \in {"", "do"}},
                        MaxElems)}

TaskDocs ==
    \E a \in SeqsUpTo(TaskItems, MaxElems) :
        r = [Minimal EXCEPT !.Items = Numbered(a)]

\* Content blocks of items and of sections.
BlockTypes ==
    {"", ContentTypeText, ContentTypeCode, ContentTypeDiagram, ContentTypeTable,
     ContentTypeList, ContentTypeBlockquote, "bogus"}

Blocks ==
    {[ZeroContentBlock EXCEPT !.Type = t, !.Value = v, !.Headers = h, !.Items = l] :
        t \in BlockTypes, v \in {"", "text"}, h \in {<<>>, <<"H">>},
        l \in {<<>>, <<"one">>}}

SmallBlocks ==
    {[ZeroContentBlock EXCEPT !.Type = t, !.Value = v] :
        t \in {"", ContentTypeText, ContentTypeTable, "bogus"}, v \in {"", "text"}}

ContentDocs ==
    \/ \E n \in 0..MaxBlocks : \E c \in [1..n -> Blocks] :
          \/ r = [Minimal EXCEPT
                    !.Items = <<[GoodItem("item-1") EXCEPT !.Content = c]>>]
          \/ r = [Minimal EXCEPT
                    !.Sections = <<[GoodSection("intro") EXCEPT !.Content = c]>>]
    \/ \E c \in SeqsUpTo(SmallBlocks, MaxBlocks),
          d \in SeqsUpTo(SmallBlocks, MaxBlocks) :
          r = [Minimal EXCEPT
                 !.Items = <<[GoodItem("item-1") EXCEPT !.Content = c]>>,
                 !.Sections = <<[GoodSection("intro") EXCEPT !.Content = d]>>]

\* Table blocks with and without headers, over rows that are absent, wider
\* than the headers, or empty.
TableBlocks ==
    {[ZeroContentBlock EXCEPT !.Type = ContentTypeTable, !.Headers = h, !.Rows = w] :
        h \in {<<>>, <<"A">>}, w \in {<<>>, <<<<"1", "2">>>>, <<<<>>>>}}

TableDocs ==
    \E c \in SeqsUpTo(TableBlocks, MaxBlocks) :
        \/ r = [Minimal EXCEPT
                  !.Items = <<[GoodItem("item-1") EXCEPT !.Content = c]>>]
        \/ r = [Minimal EXCEPT
                  !.Sections = <<[GoodSection("intro") EXCEPT !.Content = c]>>]

\* Items over the priorities, one of them no priority of the package.
Priorities ==
    {"", PriorityCritical, PriorityHigh, PriorityMedium, PriorityLow, "urgent"}

PriorityDocs ==
    \E a \in SeqsUpTo(Priorities, MaxElems) :
        r = [Minimal EXCEPT
               !.Items = Numbered([i \in 1..Len(a) |->
                                      [GoodItem("") EXCEPT !.Priority = a[i]]])]

\* depends_on: one item of a list referring to ids, and every item referring
\* to the next one of the list (the last to the first).
DepIDs == IDs \cup {"nonexistent"}

DepDocs ==
    \/ \E a \in SeqsUpTo(IDs, MaxElems) :
          \E k \in 1..Len(a), d \in SeqsUpTo(DepIDs, MaxDeps) :
              r = [Minimal EXCEPT
                     !.Items = [GoodItems(a) EXCEPT ![k].DependsOn = d]]
    \/ \E a \in SeqsUpTo(IDs, MaxIDs) :
          r = [Minimal EXCEPT
                 !.Items = [i \in 1..Len(a) |->
                              [GoodItem(a[i]) EXCEPT
                                  !.DependsOn = <<a[(i % Len(a)) + 1]>>]]]

\* Area and phase references.
RefIDs == {"", "core", "other"}

RefDocs ==
    \/ \E a \in SeqsUpTo(RefIDs, MaxElems), b \in SeqsUpTo(RefIDs, MaxElems) :
          \/ r = [Minimal EXCEPT
                    !.Items = Numbered([i \in 1..Len(a) |->
                                           [GoodItem("") EXCEPT !.Area = a[i]]]),
                    !.Areas = GoodAreas(b)]
          \/ r = [Minimal EXCEPT
                    !.Items = Numbered([i \in 1..Len(a) |->
                                           [GoodItem("") EXCEPT !.Phase = a[i]]]),
                    !.Phases = GoodPhases(b)]
    \/ \E x \in RefIDs, y \in RefIDs,
          a \in {<<>>, <<"core">>, <<"other">>},
          b \in {<<>>, <<"core">>, <<"other">>} :
          r = [Minimal EXCEPT
                 !.Items = <<[GoodItem("item-1") EXCEPT !.Area = x, !.Phase = y]>>,
                 !.Areas = GoodAreas(a), !.Phases = GoodPhases(b)]

\* Several violations at once, each present or absent on its own.
MultiDocs ==
    \E v \in {"1.0", ""}, p \in {"test", ""}, t \in {"Feature", ""},
       d \in {<<"item-1">>, <<"nonexistent">>},
       ar \in {<<>>, <<GoodArea("core")>>},
       ps \in {StatusPlanned, "done"}, st \in {"Section", ""} :
        r = [ZeroRoadmap EXCEPT
               !.IRVersion = v, !.Project = p,
               !.Items = <<GoodItem("item-1"),
                           [GoodItem("item-2") EXCEPT !.Title = t, !.DependsOn = d]>>,
               !.Areas = <<GoodArea("core")>> \o ar,
               !.Phases = <<[GoodPhase("phase-1") EXCEPT !.Status = ps]>>,
               !.Sections = <<[GoodSection("intro") EXCEPT !.Title = st]>>]

\* One violation for each pass of Validate, each present or absent on its
\* own: the dependency error of the first item and the task error of the
\* second are of different passes.
OrderDocs ==
    \E p \in {"test", ""}, t \in {"Feature", ""}, d \in {"Task", ""},
       dep \in {"item-1", "nonexistent"}, an \in {"Area", ""},
       ps \in {"", "done"}, ar \in {"core", "other"}, bt \in {"text", ""} :
        r = [Minimal EXCEPT
               !.Project = p,
               !.Items =
                   <<[GoodItem("item-1") EXCEPT
                         !.Title = t, !.DependsOn = <<dep>>,
                         !.Content = <<[ZeroContentBlock EXCEPT
                                           !.Type = ContentTypeText, !.Value = t]>>],
                     [GoodItem("item-2") EXCEPT
                         !.Area = ar,
                         !.Tasks = <<[ZeroTask EXCEPT !.Description = d]>>]>>,
               !.Areas = <<[GoodArea("core") EXCEPT !.Name = an]>>,
               !.Phases = <<[GoodPhase("phase-1") EXCEPT !.Status = ps]>>,
               !.Sections =
                   <<[GoodSection("intro") EXCEPT
                         !.Content = <<[ZeroContentBlock EXCEPT
                                           !.Type = bt, !.Value = "v"]>>]>>]

\* The documents Validate is run on.
Docs ==
    \/ RootDocs
    \/ SingleIdDocs
    \/ CrossIdDocs
    \/ FieldDocs
    \/ StatusDocs
    \/ QuarterDocs
    \/ TypeDocs
    \/ TaskDocs
    \/ ContentDocs
    \/ TableDocs
    \/ PriorityDocs
    \/ DepDocs
    \/ RefDocs
    \/ MultiDocs
    \/ OrderDocs

---------------------------------------------------------------------------
(* Validate, pass by pass                                                  *)

Init ==
    /\ Docs
    /\ pc = "root"
    /\ result = [Valid |-> TRUE, Errors |-> <<>>]
    /\ itemIDs = {}
    /\ areaIDs = {}
    /\ phaseIDs = {}
    /\ sectionIDs = {}
    /\ view = NoView
    /\ files = NoFiles
    /\ procs = <<>>
    /\ heap = <<>>

\* A faulty first pass: a missing ir_version or project ends Validate with a
\* fault, not with an error of the result.
ValidateRootRaises ==
    /\ pc = "root"
    /\ r.IRVersion # "" /\ r.Project # ""
    /\ result' = rootPass(result, r)
    /\ pc' = "items"
    /\ UNCHANGED <<files, procs, heap, view, r, itemIDs, areaIDs, phaseIDs,
                   sectionIDs>>

ValidateRoot ==
    /\ pc = "root"
    /\ result' = rootPass(result, r)
    /\ pc' = "items"
    /\ UNCHANGED <<files, procs, heap, view, r, itemIDs, areaIDs, phaseIDs,
                   sectionIDs>>

ValidateItems ==
    /\ pc = "items"
    /\ LET st == itemsPass(result, r)
       IN  /\ result' = st.res
           /\ itemIDs' = st.ids
    /\ pc' = "depends_on"
    /\ UNCHANGED <<files, procs, heap, view, r, areaIDs, phaseIDs, sectionIDs>>

ValidateDependsOn ==
    /\ pc = "depends_on"
    /\ result' = dependsPass(result, r, itemIDs)
    /\ pc' = "areas"
    /\ UNCHANGED <<files, procs, heap, view, r, itemIDs, areaIDs, phaseIDs,
                   sectionIDs>>

ValidateAreas ==
    /\ pc = "areas"
    /\ LET st == areasPass(result, r)
       IN  /\ result' = st.res
           /\ areaIDs' = st.ids
    /\ pc' = "phases"
    /\ UNCHANGED <<files, procs, heap, view, r, itemIDs, phaseIDs, sectionIDs>>

ValidatePhases ==
    /\ pc = "phases"
    /\ LET st == phasesPass(result, r)
       IN  /\ result' = st.res
           /\ phaseIDs' = st.ids
    /\ pc' = "refs"
    /\ UNCHANGED <<files, procs, heap, view, r, itemIDs, areaIDs, sectionIDs>>

ValidateRefs ==
    /\ pc = "refs"
    /\ result' = refsPass(result, r, areaIDs, phaseIDs)
    /\ pc' = "sections"
    /\ UNCHANGED <<files, procs, heap, view, r, itemIDs, areaIDs, phaseIDs,
                   sectionIDs>>

ValidateSections ==
    /\ pc = "sections"
    /\ LET st == sectionsPass(result, r)
       IN  /\ result' = st.res
           /\ sectionIDs' = st.ids
    /\ pc' = "done"
    /\ UNCHANGED <<files, procs, heap, view, r, itemIDs, areaIDs, phaseIDs>>

Next ==
    \/ ValidateRoot
    \/ ValidateItems
    \/ ValidateDependsOn
    \/ ValidateAreas
    \/ ValidatePhases
    \/ ValidateRefs
    \/ ValidateSections

Spec == Init /\ [][Next]_vars

---------------------------------------------------------------------------
(* The derived views, called on a document                                 *)

MaxViewItems == 3   \* longest item list of a document a view is taken of

\* The values of the fields the views read: none, and two values.
ViewAreas == <<"", "core", "api">>
ViewPhases == <<"", "phase-1", "phase-2">>
ViewQuarters ==
    <<<<>>, <<"Q", "1", " ", "2", "0", "2", "6">>,
      <<"Q", "2", " ", "2", "0", "2", "6">>>>
ViewTypes == <<"", "Added", "Changed">>
ViewPriorities == <<"", PriorityHigh, PriorityLow>>
ViewStatuses == <<"", StatusCompleted, StatusPlanned>>

\* An item whose area, phase and quarter are the v-th values and whose type,
\* priority and status are the w-th.
ViewItem(v, w) ==
    [ZeroItem EXCEPT
        !.Title = "Item", !.Area = ViewAreas[v], !.Phase = ViewPhases[v],
        !.TargetQuarter = ViewQuarters[v], !.Type = ViewTypes[w],
        !.Priority = ViewPriorities[w], !.Status = ViewStatuses[w]]

ViewDocs ==
    \E a \in SeqsUpTo((1..3) \X (1..3), MaxViewItems) :
        r = [Minimal EXCEPT
               !.Items = Numbered([i \in 1..Len(a) |-> ViewItem(a[i][1], a[i][2])])]

\* Longer lists where only the status varies: completed items, then others.
MaxPercentItems == 5   \* longest item list of such a document

PercentDocs ==
    \E n \in 0..MaxPercentItems : \E c \in 0..n :
        \E o \in {StatusInProgress, StatusPlanned} :
            r = [Minimal EXCEPT
                   !.Items = Numbered([i \in 1..n |->
                                [GoodItem("") EXCEPT
                                    !.Status = IF i <= c THEN StatusCompleted ELSE o]])]

\* Documents with a legend: for some of the keys completed, in_progress and
\* "blocked" (no status of the package) an entry of its own, with or without
\* an emoji.
LegendKeys == {StatusCompleted, StatusInProgress, "blocked"}

CustomEntries == {LegendEntry("check", "Done"), LegendEntry("", "No emoji")}

LegendDocs ==
    \E K \in SUBSET LegendKeys : \E l \in [K -> CustomEntries] :
        r = [Minimal EXCEPT !.Legend = l]

\* The statuses GetStatusEmoji is asked for.
StatusInputs ==
    {StatusCompleted, StatusInProgress, StatusPlanned, StatusFuture,
     "unknown", "blocked", ""}

ViewInit ==
    /\ (ViewDocs \/ PercentDocs \/ LegendDocs)
    /\ pc = "call"
    /\ view = NoView
    /\ result = [Valid |-> TRUE, Errors |-> <<>>]
    /\ itemIDs = {}
    /\ areaIDs = {}
    /\ phaseIDs = {}
    /\ sectionIDs = {}
    /\ files = NoFiles
    /\ procs = <<>>
    /\ heap = <<>>

CallItemsByArea ==
    /\ pc = "call"
    /\ view' = [op |-> "ItemsByArea", value |-> ItemsByArea(r)]
    /\ pc' = "returned"
    /\ UNCHANGED <<files, procs, heap, r, result, itemIDs, areaIDs, phaseIDs,
                   sectionIDs>>

CallItemsByType ==
    /\ pc = "call"
    /\ view' = [op |-> "ItemsByType", value |-> ItemsByType(r)]
    /\ pc' = "returned"
    /\ UNCHANGED <<files, procs, heap, r, result, itemIDs, areaIDs, phaseIDs,
                   sectionIDs>>

CallItemsByPhase ==
    /\ pc = "call"
    /\ view' = [op |-> "ItemsByPhase", value |-> ItemsByPhase(r)]
    /\ pc' = "returned"
    /\ UNCHANGED <<files, procs, heap, r, result, itemIDs, areaIDs, phaseIDs,
                   sectionIDs>>

CallItemsByStatus ==
    /\ pc = "call"
    /\ view' = [op |-> "ItemsByStatus", value |-> ItemsByStatus(r)]
    /\ pc' = "returned"
    /\ UNCHANGED <<files, procs, heap, r, result, itemIDs, areaIDs, phaseIDs,
                   sectionIDs>>

CallItemsByQuarter ==
    /\ pc = "call"
    /\ view' = [op |-> "ItemsByQuarter", value |-> ItemsByQuarter(r)]
    /\ pc' = "returned"
    /\ UNCHANGED <<files, procs, heap, r, result, itemIDs, areaIDs, phaseIDs,
                   sectionIDs>>

CallItemsByPriority ==
    /\ pc = "call"
    /\ view' = [op |-> "ItemsByPriority", value |-> ItemsByPriority(r)]
    /\ pc' = "returned"
    /\ UNCHANGED <<files, procs, heap, r, result, itemIDs, areaIDs, phaseIDs,
                   sectionIDs>>

CallStats ==
    /\ pc = "call"
    /\ view' = [op |-> "Stats", value |-> Stats(r)]
    /\ pc' = "returned"
    /\ UNCHANGED <<files, procs, heap, r, result, itemIDs, areaIDs, phaseIDs,
                   sectionIDs>>

\* The methods of the Stats returned.
CallCompletedCount ==
    /\ pc = "returned"
    /\ view.op = "Stats"
    /\ view' = [op |-> "CompletedCount", value |-> CompletedCount(view.value),
                stats |-> view.value]
    /\ UNCHANGED <<files, procs, heap, pc, r, result, itemIDs, areaIDs,
                   phaseIDs, sectionIDs>>

CallCompletedPercent ==
    /\ pc = "returned"
    /\ view.op = "Stats"
    /\ view' = [op |-> "CompletedPercent", value |-> CompletedPercent(view.value),
                stats |-> view.value]
    /\ UNCHANGED <<files, procs, heap, pc, r, result, itemIDs, areaIDs,
                   phaseIDs, sectionIDs>>

\* The priorities PriorityOrder is asked for.
PriorityInputs == Priorities \cup {"unknown", "Critical", "_unspecified"}

CallPriorityOrder ==
    /\ pc = "call"
    /\ \E p \in PriorityInputs :
          view' = [op |-> "PriorityOrder", value |-> PriorityOrder(p),
                   priority |-> p]
    /\ pc' = "returned"
    /\ UNCHANGED <<files, procs, heap, r, result, itemIDs, areaIDs, phaseIDs,
                   sectionIDs>>

CallGetLegend ==
    /\ pc = "call"
    /\ view' = [op |-> "GetLegend", value |-> GetLegend(r)]
    /\ pc' = "returned"
    /\ UNCHANGED <<files, procs, heap, r, result, itemIDs, areaIDs, phaseIDs,
                   sectionIDs>>

CallGetStatusEmoji ==
    /\ pc = "call"
    /\ \E status \in StatusInputs :
          view' = [op |-> "GetStatusEmoji", value |-> GetStatusEmoji(r, status),
                   status |-> status]
    /\ pc' = "returned"
    /\ UNCHANGED <<files, procs, heap, r, result, itemIDs, areaIDs, phaseIDs,
                   sectionIDs>>

ViewNext ==
    \/ CallItemsByArea
    \/ CallItemsByType
    \/ CallItemsByPhase
    \/ CallItemsByStatus
    \/ CallItemsByQuarter
    \/ CallItemsByPriority
    \/ CallStats
    \/ CallCompletedCount
    \/ CallCompletedPercent
    \/ CallGetLegend
    \/ CallGetStatusEmoji
    \/ CallPriorityOrder

ViewSpec == ViewInit /\ [][ViewNext]_vars

---------------------------------------------------------------------------
(* The codec, called on a document and on a file system                    *)

FullTask ==
    [ID |-> "task-1", Description |-> "Write it", Completed |-> TRUE,
     FilePath |-> "main.go"]

FullBlock ==
    [Type |-> ContentTypeTable, Value |-> "text", Language |-> "go",
     Format |-> "markdown", Headers |-> <<"Name">>,
     Rows |-> <<<<"a", "">>, <<>>>>, Items |-> <<"one", "">>]

FullItem ==
    [ID |-> "item-2", Title |-> "Feature", Description |-> "All of it",
     Status |-> StatusCompleted, Version |-> "1.0.0",
     CompletedDate |-> "2026-01-02", TargetQuarter |-> <<"Q", "1">>,
     TargetVersion |-> "1.1.0", Area |-> "core", Type |-> "Added",
     Phase |-> "phase-1", Priority |-> PriorityHigh, Order |-> 2,
     DependsOn |-> <<"item-1">>, Tasks |-> <<FullTask, ZeroTask>>,
     Content |-> <<FullBlock, ZeroContentBlock>>]

CodecItems ==
    {ZeroItem, GoodItem("item-1"), FullItem,
     [FullItem EXCEPT !.Title = InvalidUTF8],
     [GoodItem("item-1") EXCEPT !.TargetVersion = "2.0"],
     [GoodItem("item-1") EXCEPT !.DependsOn = <<InvalidUTF8>>]}

CodecTimes == {NilTime} \cup {[set |-> TRUE, year |-> y] : y \in {2026, 10000}}

CodecLegends ==
    {<<>>, [s \in {StatusCompleted, "blocked"} |-> LegendEntry("check", "")]}

CodecDependencies ==
    {NilDependencies,
     [NilDependencies EXCEPT !.set = TRUE],
     [set |-> TRUE,
      External |-> <<[Name |-> "sdk", Status |-> "active", Note |-> ""],
                     ZeroExternalDependency>>,
      Internal |-> <<[Package |-> "cli", DependsOn |-> <<"roadmap">>],
                     ZeroInternalDependency>>]}

\* The collections of a document other than its items, empty or filled.
CodecRest ==
    {ZeroRoadmap,
     [ZeroRoadmap EXCEPT
        !.Areas = <<[ID |-> "core", Name |-> "Core", Priority |-> 1], ZeroArea>>,
        !.Phases = <<[ID |-> "phase-1", Name |-> "One", Status |-> StatusPlanned,
                      Order |-> 1, Description |-> "First"], ZeroPhase>>,
        !.Sections = <<[ID |-> "overview", Title |-> "Overview", Order |-> 3,
                        Content |-> <<FullBlock>>], ZeroSection>>,
        !.VersionHistory =
            <<[Version |-> "1.0", Date |-> "2026-01-02", Status |-> StatusCompleted,
               Summary |-> "First"], ZeroVersionEntry>>]}

CodecDocs ==
    \E p \in {"", "test", InvalidUTF8} : \E g \in CodecTimes :
    \E l \in CodecLegends : \E d \in CodecDependencies : \E rest \in CodecRest :
    \E items \in {<<>>} \cup {<<i>> : i \in CodecItems} :
        r = [rest EXCEPT !.IRVersion = "1.0", !.Project = p, !.Repository = p,
                         !.GeneratedAt = g, !.Legend = l, !.Items = items,
                         !.Dependencies = d]

\* The bytes Parse is handed and a file may hold.
DataInputs ==
    {Malformed,
     Text(JNull),
     Text(JArray(<<>>)),
     Text(JObject(<<>>)),
     Text(JObject("project" :> JString("test") @@ "unknown_key" :> JNumber(1))),
     Text(JObject("project" :> JString("test") @@ "items" :> JNumber(5))),
     Text(JObject("generated_at" :> JString("yesterday")))}

\* The file systems: ROADMAP.json may be created, or is there and holds some
\* bytes; /nonexistent/file.json cannot be created; locked.json is there and
\* may not be opened.
CodecFiles ==
    {[path \in Paths |->
        CASE path = "ROADMAP.json" -> f
          [] path = "/nonexistent/file.json" -> File(FALSE, FALSE, Malformed)
          [] path = "locked.json" -> File(TRUE, FALSE, Text(JObject(<<>>)))] :
     f \in {File(FALSE, TRUE, Malformed)}
           \cup {File(TRUE, TRUE, d) : d \in DataInputs}}

CodecInit ==
    /\ \/ CodecDocs /\ files = [NoFiles EXCEPT !["ROADMAP.json"].allowed = TRUE]
       \/ r = Minimal /\ files \in CodecFiles
    /\ pc = "call"
    /\ view = NoView
    /\ result = [Valid |-> TRUE, Errors |-> <<>>]
    /\ itemIDs = {}
    /\ areaIDs = {}
    /\ phaseIDs = {}
    /\ sectionIDs = {}
    /\ procs = <<>>
    /\ heap = <<>>

CallToJSON ==
    /\ pc = "call"
    /\ view' = [op |-> "ToJSON", value |-> ToJSON(r)]
    /\ pc' = "returned"
    /\ UNCHANGED <<files, procs, heap, r, result, itemIDs, areaIDs, phaseIDs,
                   sectionIDs>>

\* Parse, on the bytes ToJSON has just returned or on bytes handed in.
CallParse ==
    /\ \E data \in IF pc = "call" THEN DataInputs
                   ELSE IF view.op = "ToJSON" /\ view.value.err = NoError
                        THEN {view.value.data}
                   ELSE {} :
          view' = [op |-> "Parse", value |-> Parse(data), data |-> data,
                   after |-> view.op]
    /\ pc' = "returned"
    /\ UNCHANGED <<files, procs, heap, r, result, itemIDs, areaIDs, phaseIDs,
                   sectionIDs>>

CallWriteFile ==
    /\ pc = "call"
    /\ \E path \in Paths : \E w \in WriteFile(files, path, r) :
          /\ files' = w.fs
          /\ view' = [op |-> "WriteFile", value |-> w.err, path |-> path,
                      before |-> files]
    /\ pc' = "returned"
    /\ UNCHANGED <<procs, heap, r, result, itemIDs, areaIDs, phaseIDs,
                   sectionIDs>>

\* ParseFile, first or on the file WriteFile has just been called on.
CallParseFile ==
    /\ \E path \in IF pc = "call" THEN Paths
                   ELSE IF view.op = "WriteFile" THEN {view.path}
                   ELSE {} :
          view' = [op |-> "ParseFile", value |-> ParseFile(files, path),
                   path |-> path, after |-> view]
    /\ pc' = "returned"
    /\ UNCHANGED <<files, procs, heap, r, result, itemIDs, areaIDs, phaseIDs,
                   sectionIDs>>

CodecNext ==
    \/ CallToJSON
    \/ CallParse
    \/ CallWriteFile
    \/ CallParseFile

CodecSpec == CodecInit /\ [][CodecNext]_vars

---------------------------------------------------------------------------
(* Validate and the derived views, called concurrently on one document     *)

MaxProcs == 2    \* calls that run at the same time

\* The functions called: Validate, the six groupings, Stats and GetLegend.
ConcOps ==
    {"Validate", "ItemsByArea", "ItemsByType", "ItemsByPhase", "ItemsByStatus",
     "ItemsByQuarter", "ItemsByPriority", "Stats", "GetLegend"}

\* The locals of a call about to start on a document, which it is handed by
\* pointer; called keeps the value the document had then.
Local(op, doc) ==
    [op |-> op, pc |-> IF op = "Validate" THEN "root" ELSE "call",
     result |-> [Valid |-> TRUE, Errors |-> <<>>],
     itemIDs |-> {}, areaIDs |-> {}, phaseIDs |-> {}, sectionIDs |-> {},
     value |-> <<>>, called |-> doc]

\* The next pass of a call of Validate, on the document as it is now.
validateStep(st, doc) ==
    CASE st.pc = "root" ->
            [st EXCEPT !.result = rootPass(st.result, doc), !.pc = "items"]
      [] st.pc = "items" ->
            LET n == itemsPass(st.result, doc)
            IN  [st EXCEPT !.result = n.res, !.itemIDs = n.ids,
                           !.pc = "depends_on"]
      [] st.pc = "depends_on" ->
            [st EXCEPT !.result = dependsPass(st.result, doc, st.itemIDs),
                       !.pc = "areas"]
      [] st.pc = "areas" ->
            LET n == areasPass(st.result, doc)
            IN  [st EXCEPT !.result = n.res, !.areaIDs = n.ids, !.pc = "phases"]
      [] st.pc = "phases" ->
            LET n == phasesPass(st.result, doc)
            IN  [st EXCEPT !.result = n.res, !.phaseIDs = n.ids, !.pc = "refs"]
      [] st.pc = "refs" ->
            [st EXCEPT !.result = refsPass(st.result, doc, st.areaIDs,
                                           st.phaseIDs),
                       !.pc = "sections"]
      [] st.pc = "sections" ->
            LET n == sectionsPass(st.result, doc)
            IN  [st EXCEPT !.result = n.res, !.sectionIDs = n.ids,
                           !.pc = "done"]

\* A pass that ranges over a map: the errors it adds come in any order.
validateOutcomesAnyOrder(st, doc) ==
    LET n == validateStep(st, doc)
        old == Len(st.result.Errors)
        added == Len(n.result.Errors) - old
    IN  {[n EXCEPT !.result.Errors =
                [i \in DOMAIN n.result.Errors |->
                    IF i <= old THEN n.result.Errors[i]
                    ELSE n.result.Errors[old + f[i - old]]]] :
         f \in Permutations(1..added)}

\* The outcomes of the next pass.  Every loop of Validate ranges over a slice,
\* in index order, and its maps are only looked up: one outcome.
validateOutcomes(st, doc) == {validateStep(st, doc)}

\* The value a derived view returns.
viewOf(op, doc) ==
    CASE op = "ItemsByArea" -> ItemsByArea(doc)
      [] op = "ItemsByType" -> ItemsByType(doc)
      [] op = "ItemsByPhase" -> ItemsByPhase(doc)
      [] op = "ItemsByStatus" -> ItemsByStatus(doc)
      [] op = "ItemsByQuarter" -> ItemsByQuarter(doc)
      [] op = "ItemsByPriority" -> ItemsByPriority(doc)
      [] op = "Stats" -> Stats(doc)
      [] op = "GetLegend" -> GetLegend(doc)

\* GetLegend keeping the legend it has resolved in the document.
writtenLegendKept(op, doc) ==
    IF op = "GetLegend" THEN [doc EXCEPT !.Legend = GetLegend(doc)] ELSE doc

\* The document after a step of a call: no statement of these functions
\* assigns through r, to a field of an element of r or into r.Legend.
written(op, doc) == doc

\* A document with errors for every pass of Validate, and parts of it.
BusyDoc ==
    [Minimal EXCEPT
        !.Items = <<[GoodItem("a") EXCEPT !.Area = "x", !.DependsOn = <<"zz", "a">>],
                    [GoodItem("a") EXCEPT !.Status = "bad", !.Phase = "p9",
                                          !.DependsOn = <<"yy">>]>>,
        !.Areas = <<GoodArea("core"), GoodArea("core")>>,
        !.Phases = <<GoodPhase("p1"), GoodPhase("")>>,
        !.Sections = <<GoodSection("s"), GoodSection("s")>>,
        !.Legend = [s \in {StatusCompleted, "blocked"} |-> LegendEntry("check", "Done")]]

ConcDocs ==
    \E project \in {"", "test"} : \E parts \in SUBSET {"Items", "Areas", "Legend"} :
        r = [n \in DOMAIN BusyDoc |->
                IF n = "Project" THEN project
                ELSE IF n \in parts \cup {"IRVersion", "Phases", "Sections"}
                     THEN BusyDoc[n]
                ELSE ZeroRoadmap[n]]

ConcInit ==
    /\ ConcDocs
    /\ procs \in [1..MaxProcs -> {Local(op, r) : op \in ConcOps}]
    /\ pc = "call"
    /\ view = NoView
    /\ result = [Valid |-> TRUE, Errors |-> <<>>]
    /\ itemIDs = {}
    /\ areaIDs = {}
    /\ phaseIDs = {}
    /\ sectionIDs = {}
    /\ files = NoFiles
    /\ heap = <<>>

\* A call of Validate runs its next pass.
ConcValidate ==
    /\ \E p \in DOMAIN procs :
          /\ procs[p].op = "Validate"
          /\ procs[p].pc # "done"
          /\ \E st \in validateOutcomes(procs[p], r) :
                procs' = [procs EXCEPT ![p] = st]
          /\ r' = written(procs[p].op, r)
    /\ UNCHANGED <<files, heap, view, pc, result, itemIDs, areaIDs, phaseIDs,
                   sectionIDs>>

\* A call of a derived view runs.
ConcView ==
    /\ \E p \in DOMAIN procs :
          /\ procs[p].op # "Validate"
          /\ procs[p].pc = "call"
          /\ procs' = [procs EXCEPT ![p].value = viewOf(procs[p].op, r),
                                    ![p].pc = "returned"]
          /\ r' = written(procs[p].op, r)
    /\ UNCHANGED <<files, heap, view, pc, result, itemIDs, areaIDs, phaseIDs,
                   sectionIDs>>

ConcNext ==
    \/ ConcValidate
    \/ ConcView

ConcSpec == ConcInit /\ [][ConcNext]_vars

---------------------------------------------------------------------------
(* The legend maps, by reference                                           *)

MaxMaps == 2     \* maps the legend functions allocate in a run

\* A map value of Go is a reference: to the map of the document's Legend
\* field, or to a map allocated since, by its address in the heap.
DocRef == [at |-> "doc"]

HeapRef(addr) == [at |-> "heap", addr |-> addr]

deref(doc, hp, ref) == IF ref.at = "doc" THEN doc.Legend ELSE hp[ref.addr]

\* DefaultLegend(): a map literal, allocated by every call.
DefaultLegendRef(hp) ==
    [heap |-> Append(hp, DefaultLegend), ref |-> HeapRef(Len(hp) + 1)]

\* A faulty GetLegend: a document with a legend is handed its own map.
GetLegendRefShared(doc, hp) ==
    IF Cardinality(DOMAIN doc.Legend) > 0
    THEN [heap |-> hp, ref |-> DocRef]
    ELSE DefaultLegendRef(hp)

\* GetLegend(): the entries of the document's legend are stored in the map
\* DefaultLegend() has just allocated.
GetLegendRef(doc, hp) ==
    IF Cardinality(DOMAIN doc.Legend) > 0
    THEN LET legend == DefaultLegendRef(hp)
         IN  [heap |-> [legend.heap EXCEPT
                          ![legend.ref.addr] = overlay(@, doc.Legend)],
              ref |-> legend.ref]
    ELSE DefaultLegendRef(hp)

\* GetStatusEmoji(status): the lookup in the map GetLegend() returns.
GetStatusEmojiRef(doc, hp, status) ==
    LET legend == GetLegendRef(doc, hp)
    IN  [heap |-> legend.heap,
         value |-> emojiOf(deref(doc, legend.heap, legend.ref), status)]

\* What a caller does to a map it holds: m[key] = entry, and delete(m, key).
MapChanges ==
    {[key |-> "blocked", delete |-> FALSE], [key |-> StatusCompleted, delete |-> FALSE],
     [key |-> StatusPlanned, delete |-> TRUE], [key |-> StatusCompleted, delete |-> TRUE]}

changed(m, c) ==
    IF c.delete THEN [k \in DOMAIN m \ {c.key} |-> m[k]]
    ELSE [k \in DOMAIN m \cup {c.key} |->
             IF k = c.key THEN LegendEntry("x", "Changed") ELSE m[k]]

LegendRefDocs ==
    \E K \in SUBSET LegendKeys :
        r = [Minimal EXCEPT !.Legend = [k \in K |-> LegendEntry("check", "Done")]]

LegendInit ==
    /\ LegendRefDocs
    /\ heap = <<>>
    /\ pc = "call"
    /\ view = NoView
    /\ result = [Valid |-> TRUE, Errors |-> <<>>]
    /\ itemIDs = {}
    /\ areaIDs = {}
    /\ phaseIDs = {}
    /\ sectionIDs = {}
    /\ files = NoFiles
    /\ procs = <<>>

CallGetLegendRef ==
    /\ Len(heap) < MaxMaps
    /\ LET got == GetLegendRef(r, heap)
       IN  /\ heap' = got.heap
           /\ view' = [op |-> "GetLegend", value |-> deref(r, got.heap, got.ref),
                       ref |-> got.ref]
    /\ pc' = "returned"
    /\ UNCHANGED <<files, procs, r, result, itemIDs, areaIDs, phaseIDs,
                   sectionIDs>>

CallDefaultLegendRef ==
    /\ Len(heap) < MaxMaps
    /\ LET got == DefaultLegendRef(heap)
       IN  /\ heap' = got.heap
           /\ view' = [op |-> "DefaultLegend",
                       value |-> deref(r, got.heap, got.ref), ref |-> got.ref]
    /\ pc' = "returned"
    /\ UNCHANGED <<files, procs, r, result, itemIDs, areaIDs, phaseIDs,
                   sectionIDs>>

CallGetStatusEmojiRef ==
    /\ Len(heap) < MaxMaps
    /\ \E status \in {StatusCompleted, StatusPlanned, "blocked"} :
          LET got == GetStatusEmojiRef(r, heap, status)
          IN  /\ heap' = got.heap
              /\ view' = [op |-> "GetStatusEmoji", value |-> got.value,
                          status |-> status]
    /\ pc' = "call"
    /\ UNCHANGED <<files, procs, r, result, itemIDs, areaIDs, phaseIDs,
                   sectionIDs>>

\* The caller changes the map it has just been returned.
MutateReturned ==
    /\ pc = "returned"
    /\ \E c \in MapChanges :
          IF view.ref.at = "doc"
          THEN r' = [r EXCEPT !.Legend = changed(@, c)] /\ heap' = heap
          ELSE heap' = [heap EXCEPT ![view.ref.addr] = changed(@, c)] /\ r' = r
    /\ view' = [op |-> "mutate", value |-> view.value, ref |-> view.ref]
    /\ pc' = "call"
    /\ UNCHANGED <<files, procs, result, itemIDs, areaIDs, phaseIDs,
                   sectionIDs>>

LegendNext ==
    \/ CallGetLegendRef
    \/ CallDefaultLegendRef
    \/ CallGetStatusEmojiRef
    \/ MutateReturned

LegendSpec == LegendInit /\ [][LegendNext]_vars

---------------------------------------------------------------------------
(* Properties                                                              *)

Done == pc = "done"

Errs == result.Errors

\* The number of errors of the result equal to the error (field, message).
CountError(field, message) ==
    Cardinality({k \in 1..Len(Errs) : Errs[k] = ValidationError(field, message)})

\* The number of errors of the result on the field path.
CountOn(field) == Cardinality({k \in 1..Len(Errs) : Errs[k].Field = field})

HasError(field, message) == CountError(field, message) > 0

\* The field path of element i (a sequence index, from 1) of a collection.
PathOf(coll, i, field) == coll \o "[" \o ToString(i - 1) \o "]." \o field

ValidStatuses == {"completed", "in_progress", "planned", "future"}

\* An earlier element of the list has the same id.
SeenBefore(list, i) == \E j \in 1..(i - 1) : list[j].ID = list[i].ID

\* The shape "Q, one digit in 1..4, one space, four digits".
QuarterShape(q) ==
    /\ Len(q) = 7
    /\ q[1] = "Q"
    /\ q[2] \in {"1", "2", "3", "4"}
    /\ q[3] = " "
    /\ \A k \in 4..7 : q[k] \in {"0", "1", "2", "3", "4", "5", "6", "7", "8", "9"}

\* The payload a content block's type requires is missing, or the type is
\* missing or unknown.
BlockViolates(b) ==
    \/ b.Type \in {"text", "code", "diagram", "blockquote"} /\ b.Value = ""
    \/ b.Type = "table" /\ b.Headers = <<>>
    \/ b.Type = "list" /\ b.Items = <<>>
    \/ b.Type \notin {"text", "code", "diagram", "blockquote", "table", "list"}

\* The violations of a document, each named by the collection, the position
\* of the element, the field and the position within the field.
Violations(doc) ==
    (IF doc.IRVersion # "1.0" THEN {<<"root", 0, "ir_version", 0>>} ELSE {})
    \cup (IF doc.Project = "" THEN {<<"root", 0, "project", 0>>} ELSE {})
    \cup {<<"items", i, "id", 0>> : i \in
            {i \in 1..Len(doc.Items) :
                doc.Items[i].ID = "" \/ SeenBefore(doc.Items, i)}}
    \cup {<<"items", i, "title", 0>> : i \in
            {i \in 1..Len(doc.Items) : doc.Items[i].Title = ""}}
    \cup {<<"items", i, "status", 0>> : i \in
            {i \in 1..Len(doc.Items) : doc.Items[i].Status \notin ValidStatuses}}
    \cup {<<"items", i, "target_quarter", 0>> : i \in
            {i \in 1..Len(doc.Items) :
                /\ doc.Items[i].TargetQuarter # <<>>
                /\ ~QuarterShape(doc.Items[i].TargetQuarter)}}
    \cup {<<"items", i, "type", 0>> : i \in
            {i \in 1..Len(doc.Items) :
                doc.Items[i].Type # "" /\ doc.Items[i].Type \notin ChangeTypes}}
    \cup UNION {{<<"items", i, "tasks", j>> : j \in
                    {j \in 1..Len(doc.Items[i].Tasks) :
                        doc.Items[i].Tasks[j].Description = ""}} :
                i \in 1..Len(doc.Items)}
    \cup UNION {{<<"items", i, "content", j>> : j \in
                    {j \in 1..Len(doc.Items[i].Content) :
                        BlockViolates(doc.Items[i].Content[j])}} :
                i \in 1..Len(doc.Items)}
    \cup UNION {{<<"items", i, "depends_on", k>> : k \in
                    {k \in 1..Len(doc.Items[i].DependsOn) :
                        \/ doc.Items[i].DependsOn[k] = ""
                        \/ \A j \in 1..Len(doc.Items) :
                              doc.Items[j].ID # doc.Items[i].DependsOn[k]}} :
                i \in 1..Len(doc.Items)}
    \cup {<<"items", i, "area", 0>> : i \in
            {i \in 1..Len(doc.Items) :
                /\ doc.Items[i].Area # ""
                /\ doc.Areas # <<>>
                /\ \A j \in 1..Len(doc.Areas) : doc.Areas[j].ID # doc.Items[i].Area}}
    \cup {<<"items", i, "phase", 0>> : i \in
            {i \in 1..Len(doc.Items) :
                /\ doc.Items[i].Phase # ""
                /\ doc.Phases # <<>>
                /\ \A j \in 1..Len(doc.Phases) : doc.Phases[j].ID # doc.Items[i].Phase}}
    \cup {<<"areas", i, "id", 0>> : i \in
            {i \in 1..Len(doc.Areas) :
                doc.Areas[i].ID = "" \/ SeenBefore(doc.Areas, i)}}
    \cup {<<"areas", i, "name", 0>> : i \in
            {i \in 1..Len(doc.Areas) : doc.Areas[i].Name = ""}}
    \cup {<<"phases", i, "id", 0>> : i \in
            {i \in 1..Len(doc.Phases) :
                doc.Phases[i].ID = "" \/ SeenBefore(doc.Phases, i)}}
    \cup {<<"phases", i, "name", 0>> : i \in
            {i \in 1..Len(doc.Phases) : doc.Phases[i].Name = ""}}
    \cup {<<"phases", i, "status", 0>> : i \in
            {i \in 1..Len(doc.Phases) :
                doc.Phases[i].Status \notin ValidStatuses \cup {""}}}
    \cup {<<"sections", i, "id", 0>> : i \in
            {i \in 1..Len(doc.Sections) :
                doc.Sections[i].ID = "" \/ SeenBefore(doc.Sections, i)}}
    \cup {<<"sections", i, "title", 0>> : i \in
            {i \in 1..Len(doc.Sections) : doc.Sections[i].Title = ""}}
    \cup UNION {{<<"sections", i, "content", j>> : j \in
                    {j \in 1..Len(doc.Sections[i].Content) :
                        BlockViolates(doc.Sections[i].Content[j])}} :
                i \in 1..Len(doc.Sections)}

\* C1: in every state of a run of Validate, result.Valid is true if and only
\* if result.Errors is empty.
C1_ValidIffNoErrors == result.Valid <=> (Len(result.Errors) = 0)

\* Validate has returned a result with errors appended both by addError and
\* by the content-block loop.
C1_Witness ==
    /\ Done
    /\ ~result.Valid
    /\ HasError("items[0].content[0].value", "required for type text")
    /\ HasError("sections[0].content[0].type", "required field is missing")

\* C2: Validate does not stop at the first violation: the result it returns
\* holds exactly as many errors as the document has violations.
C2_Exhaustive == Done => Len(result.Errors) = Cardinality(Violations(r))

\* Validate has returned five errors for a document with five violations on
\* different fields: project, an item's title, a depends_on entry, a
\* duplicate area id and a section's title.
C2_Witness ==
    /\ Done
    /\ Violations(r) =
          {<<"root", 0, "project", 0>>, <<"items", 2, "title", 0>>,
           <<"items", 2, "depends_on", 1>>, <<"areas", 2, "id", 0>>,
           <<"sections", 1, "title", 0>>}
    /\ Len(result.Errors) = 5
    /\ {result.Errors[k].Field : k \in 1..5} =
          {"project", "items[1].title", "items[1].depends_on", "areas[1].id",
           "sections[0].title"}

\* C3: once the root pass has run, there is exactly one error on ir_version
\* when ir_version is not "1.0" ('required field is missing' when it is empty,
\* 'unsupported version' otherwise) and none when it is "1.0"; exactly one
\* error on project when project is empty and none otherwise; and Validate
\* returns Valid = true and no errors for a minimal document.
C3_RootRule ==
    /\ pc # "root" =>
          /\ CountOn("ir_version") = IF r.IRVersion = "1.0" THEN 0 ELSE 1
          /\ r.IRVersion = "" => HasError("ir_version", "required field is missing")
          /\ r.IRVersion \notin {"", "1.0"} =>
                HasError("ir_version", "unsupported version: " \o r.IRVersion)
          /\ CountOn("project") = IF r.Project = "" THEN 1 ELSE 0
          /\ r.Project = "" => HasError("project", "required field is missing")
    /\ (/\ Done
        /\ r.IRVersion = "1.0"
        /\ r.Project # ""
        /\ r.Items = <<>> /\ r.Areas = <<>> /\ r.Phases = <<>> /\ r.Sections = <<>>)
       => result.Valid /\ result.Errors = <<>>

\* Validate has returned for a document with ir_version "2.0" and no project.
C3_Witness ==
    /\ Done
    /\ r.IRVersion = "2.0"
    /\ r.Project = ""
    /\ result.Errors =
          <<ValidationError("ir_version", "unsupported version: 2.0"),
            ValidationError("project", "required field is missing")>>

\* The duplicate-ID errors expected of one collection: one on each element
\* whose non-empty id an earlier element of the collection has.
DuplicatesOf(coll, list) ==
    {ValidationError(PathOf(coll, i, "id"), "duplicate ID: " \o list[i].ID) :
        i \in {i \in 1..Len(list) : list[i].ID # "" /\ SeenBefore(list, i)}}

AllIDs(doc) ==
    {doc.Items[i].ID : i \in 1..Len(doc.Items)}
    \cup {doc.Areas[i].ID : i \in 1..Len(doc.Areas)}
    \cup {doc.Phases[i].ID : i \in 1..Len(doc.Phases)}
    \cup {doc.Sections[i].ID : i \in 1..Len(doc.Sections)}

\* C4: the duplicate-ID errors Validate returns are, each once, those on the
\* elements of Items, Areas, Phases and Sections whose non-empty id an earlier
\* element of the same collection has; an id of another collection never
\* counts.
C4_DuplicatePerCollection ==
    Done =>
        LET expected ==
                DuplicatesOf("items", r.Items) \cup DuplicatesOf("areas", r.Areas)
                \cup DuplicatesOf("phases", r.Phases)
                \cup DuplicatesOf("sections", r.Sections)
            reported ==
                {k \in 1..Len(Errs) :
                    \E id \in AllIDs(r) : Errs[k].Message = "duplicate ID: " \o id}
        IN  /\ {Errs[k] : k \in reported} = expected
            /\ Cardinality(reported) = Cardinality(expected)

\* Validate has returned for a document with two items of id "core" and an
\* area of id "core": the only error is the duplicate on the second item.
C4_Witness ==
    /\ Done
    /\ Len(r.Items) = 2 /\ r.Items[1].ID = "core" /\ r.Items[2].ID = "core"
    /\ Len(r.Areas) = 1 /\ r.Areas[1].ID = "core"
    /\ result.Errors = <<ValidationError("items[1].id", "duplicate ID: core")>>

\* The number of entries of an item's depends_on equal to dep.
Entries(item, dep) ==
    Cardinality({k \in 1..Len(item.DependsOn) : item.DependsOn[k] = dep})

\* The unknown-item errors of the result are those of the entries that are
\* not among the ids known, one per entry.
DependsOnErrorsAre(known) ==
    \A i \in 1..Len(r.Items) :
        /\ \A dep \in {r.Items[i].DependsOn[k] : k \in 1..Len(r.Items[i].DependsOn)} :
              CountError(PathOf("items", i, "depends_on"),
                         "references unknown item: " \o dep)
                 = IF dep \notin known THEN Entries(r.Items[i], dep) ELSE 0
        /\ CountOn(PathOf("items", i, "depends_on"))
              = Cardinality({k \in 1..Len(r.Items[i].DependsOn) :
                                r.Items[i].DependsOn[k] \notin known})

\* The ids of the items of the document, the empty id of an item without id
\* among them.
ItemIDsOf(doc) == {doc.Items[j].ID : j \in 1..Len(doc.Items)}

\* C5 as claimed: a depends_on entry is reported if and only if it equals the
\* id of no item of the document.
C5_AsClaimed == Done => DependsOnErrorsAre(ItemIDsOf(r))

\* C5, amended: a depends_on entry is reported, on items[i].depends_on, if and
\* only if it equals the non-empty id of no item of the document (an empty
\* entry is always reported), wherever in the document that item stands: a
\* reference to a later item, to the item itself and around a cycle are all
\* accepted.
C5_DependsOnResolved == Done => DependsOnErrorsAre(ItemIDsOf(r) \ {""})

\* Validate has returned Valid for two items that depend on each other: the
\* first refers forward to the second, and the two form a cycle.
C5_Witness ==
    /\ Done
    /\ Len(r.Items) = 2
    /\ r.Items[1].ID = "item-1" /\ r.Items[2].ID = "core"
    /\ r.Items[1].DependsOn = <<"core">>
    /\ r.Items[2].DependsOn = <<"item-1">>
    /\ result.Valid

\* The reference errors of one kind, refs[i] being the reference of item i:
\* a non-empty reference is reported, once, if and only if the owning
\* collection is non-empty and has no element of that id; an empty reference
\* is never reported.
ReferenceGated(field, refs, owners) ==
    \A i \in 1..Len(refs) :
        LET path == PathOf("items", i, field)
            unknown ==
                owners # <<>> /\ \A j \in 1..Len(owners) : owners[j].ID # refs[i]
        IN  IF refs[i] # "" /\ unknown
            THEN /\ CountOn(path) = 1
                 /\ HasError(path, "references unknown " \o field \o ": " \o refs[i])
            ELSE CountOn(path) = 0

\* C6: an item's non-empty area (phase) is reported on items[i].area
\* (items[i].phase) if and only if Areas (Phases) is non-empty and has no
\* element of that id; with the owning collection empty nothing is reported.
C6_ReferenceGating ==
    Done =>
        /\ ReferenceGated("area", [i \in 1..Len(r.Items) |-> r.Items[i].Area],
                          r.Areas)
        /\ ReferenceGated("phase", [i \in 1..Len(r.Items) |-> r.Items[i].Phase],
                          r.Phases)

\* Validate has returned for an item of area "core" and Areas = [{id: "other"}].
C6_Witness ==
    /\ Done
    /\ Len(r.Items) = 1 /\ r.Items[1].Area = "core" /\ r.Items[1].Phase = ""
    /\ Len(r.Areas) = 1 /\ r.Areas[1].ID = "other"
    /\ result.Errors =
          <<ValidationError("items[0].area", "references unknown area: core")>>

\* C7: an item's status is accepted only if it is one of the four statuses
\* (an empty one is reported as missing, any other value as invalid, once, on
\* items[i].status); a phase's status is reported, as invalid, only when it is
\* non-empty and none of the four.
C7_StatusEnumeration ==
    Done =>
        /\ \A i \in 1..Len(r.Items) :
              LET s == r.Items[i].Status
                  path == PathOf("items", i, "status")
              IN  /\ CountOn(path) = IF s \in ValidStatuses THEN 0 ELSE 1
                  /\ s = "" => HasError(path, "required field is missing")
                  /\ s \notin ValidStatuses \cup {""} =>
                        HasError(path, "invalid status: " \o s)
        /\ \A i \in 1..Len(r.Phases) :
              LET s == r.Phases[i].Status
                  path == PathOf("phases", i, "status")
              IN  /\ CountOn(path) = IF s \in ValidStatuses \cup {""} THEN 0 ELSE 1
                  /\ s \notin ValidStatuses \cup {""} =>
                        HasError(path, "invalid status: " \o s)

\* Validate has returned for an item of status "done" and a phase without
\* status.
C7_Witness ==
    /\ Done
    /\ Len(r.Items) = 1 /\ r.Items[1].Status = "done"
    /\ Len(r.Phases) = 1 /\ r.Phases[1].Status = ""
    /\ result.Errors =
          <<ValidationError("items[0].status", "invalid status: done")>>

\* The empty fields among those C8 lists, by field path.
ListedEmptyFields(doc) ==
    {PathOf("items", i, "id") : i \in {i \in 1..Len(doc.Items) : doc.Items[i].ID = ""}}
    \cup {PathOf("items", i, "title") :
            i \in {i \in 1..Len(doc.Items) : doc.Items[i].Title = ""}}
    \cup {PathOf("items", i, "status") :
            i \in {i \in 1..Len(doc.Items) : doc.Items[i].Status = ""}}
    \cup UNION {{PathOf("items", i, "tasks") \o "[" \o ToString(j - 1) \o "].description" :
                    j \in {j \in 1..Len(doc.Items[i].Tasks) :
                              doc.Items[i].Tasks[j].Description = ""}} :
                i \in 1..Len(doc.Items)}
    \cup {PathOf("areas", i, "id") : i \in {i \in 1..Len(doc.Areas) : doc.Areas[i].ID = ""}}
    \cup {PathOf("areas", i, "name") :
            i \in {i \in 1..Len(doc.Areas) : doc.Areas[i].Name = ""}}
    \cup {PathOf("phases", i, "id") :
            i \in {i \in 1..Len(doc.Phases) : doc.Phases[i].ID = ""}}
    \cup {PathOf("phases", i, "name") :
            i \in {i \in 1..Len(doc.Phases) : doc.Phases[i].Name = ""}}
    \cup {PathOf("sections", i, "id") :
            i \in {i \in 1..Len(doc.Sections) : doc.Sections[i].ID = ""}}
    \cup {PathOf("sections", i, "title") :
            i \in {i \in 1..Len(doc.Sections) : doc.Sections[i].Title = ""}}

\* The empty fields C8 does not list: the two root fields and the type of a
\* content block of an item or of a section.
UnlistedEmptyFields(doc) ==
    (IF doc.IRVersion = "" THEN {"ir_version"} ELSE {})
    \cup (IF doc.Project = "" THEN {"project"} ELSE {})
    \cup UNION {{PathOf("items", i, "content") \o "[" \o ToString(j - 1) \o "].type" :
                    j \in {j \in 1..Len(doc.Items[i].Content) :
                              doc.Items[i].Content[j].Type = ""}} :
                i \in 1..Len(doc.Items)}
    \cup UNION {{PathOf("sections", i, "content") \o "[" \o ToString(j - 1) \o "].type" :
                    j \in {j \in 1..Len(doc.Sections[i].Content) :
                              doc.Sections[i].Content[j].Type = ""}} :
                i \in 1..Len(doc.Sections)}

\* The 'required field is missing' errors of the result are on the given
\* field paths, one on each.
MissingErrorsAre(fields) ==
    LET missing == {k \in 1..Len(Errs) : Errs[k].Message = "required field is missing"}
    IN  /\ {Errs[k].Field : k \in missing} = fields
        /\ Cardinality(missing) = Cardinality(fields)

\* C8 as claimed: the 'required field is missing' errors are exactly those on
\* the empty fields among the ten the claim lists.
C8_AsClaimed == Done => MissingErrorsAre(ListedEmptyFields(r))

\* C8, amended: the 'required field is missing' errors are, one on each,
\* those on the empty fields among the ten listed and among ir_version,
\* project and the type of a content block of an item or of a section, the
\* element's position (from 0) standing in the field path.
C8_RequiredFields ==
    Done => MissingErrorsAre(ListedEmptyFields(r) \cup UnlistedEmptyFields(r))

\* Validate has returned for a document of two items, the second without id,
\* title and status.
C8_Witness ==
    /\ Done
    /\ Len(r.Items) = 2
    /\ r.Items[1] = GoodItem("item-1")
    /\ r.Items[2] = ZeroItem
    /\ result.Errors =
          <<ValidationError("items[1].id", "required field is missing"),
            ValidationError("items[1].title", "required field is missing"),
            ValidationError("items[1].status", "required field is missing")>>

\* C9: a non-empty target_quarter is reported, once, on
\* items[i].target_quarter if and only if it is not "Q", a digit in 1..4, a
\* space and four digits; an empty one is never reported.
C9_QuarterPattern ==
    Done =>
        \A i \in 1..Len(r.Items) :
            LET q == r.Items[i].TargetQuarter
                path == PathOf("items", i, "target_quarter")
            IN  /\ CountOn(path) = IF q # <<>> /\ ~QuarterShape(q) THEN 1 ELSE 0
                /\ CountOn(path) = 1 =>
                      HasError(path, "invalid format: " \o Str(q)
                                         \o " (expected 'Q1 2026')")
                /\ q = <<"Q", "2", " ", "2", "0", "2", "6">> => CountOn(path) = 0
                /\ q \in {<<"2", "0", "2", "6", "-", "Q", "2">>,
                          <<"Q", "5", " ", "2", "0", "2", "6">>,
                          <<"Q", "2", " ", "2", "6">>,
                          <<"q", "2", " ", "2", "0", "2", "6">>} => CountOn(path) = 1

\* Validate has returned for an item whose target_quarter is "2026-Q2".
C9_Witness ==
    /\ Done
    /\ Len(r.Items) = 1
    /\ r.Items[1].TargetQuarter = <<"2", "0", "2", "6", "-", "Q", "2">>
    /\ result.Errors =
          <<ValidationError("items[0].target_quarter",
                            "invalid format: 2026-Q2 (expected 'Q1 2026')")>>

\* The values of every string field of the document.
NamesIn(doc) ==
    {doc.Project} \cup AllIDs(doc)
    \cup UNION {{doc.Items[i].Type, doc.Items[i].Title, doc.Items[i].Area,
                 doc.Items[i].Phase, doc.Items[i].Priority, doc.Items[i].Status} :
                i \in 1..Len(doc.Items)}
    \cup UNION {{doc.Items[i].DependsOn[k] : k \in 1..Len(doc.Items[i].DependsOn)} :
                i \in 1..Len(doc.Items)}
    \cup UNION {{doc.Items[i].Tasks[k].Description : k \in 1..Len(doc.Items[i].Tasks)} :
                i \in 1..Len(doc.Items)}
    \cup {doc.Areas[i].Name : i \in 1..Len(doc.Areas)}
    \cup {doc.Phases[i].Name : i \in 1..Len(doc.Phases)}
    \cup {doc.Sections[i].Title : i \in 1..Len(doc.Sections)}

InvalidTypeMessage(t) ==
    "invalid change type: " \o t \o " (see structured-changelog for valid types)"

\* C10: an item's type is reported, once, on items[i].type if and only if it
\* is non-empty and not a change type of the registry ("Added" is one,
\* "InvalidType" is not); no error about a change type is on another field.
C10_ChangeType ==
    Done =>
        /\ \A i \in 1..Len(r.Items) :
              LET t == r.Items[i].Type
                  path == PathOf("items", i, "type")
              IN  /\ CountOn(path) = IF t # "" /\ t \notin ChangeTypes THEN 1 ELSE 0
                  /\ CountOn(path) = 1 => HasError(path, InvalidTypeMessage(t))
                  /\ t = "Added" => CountOn(path) = 0
                  /\ t = "InvalidType" => CountOn(path) = 1
        /\ \A k \in 1..Len(Errs) :
              (\E n \in NamesIn(r) : Errs[k].Message = InvalidTypeMessage(n))
              => \E i \in 1..Len(r.Items) : Errs[k].Field = PathOf("items", i, "type")

\* Validate has returned for two items, the first of type "Added" and the
\* second of type "InvalidType", in a document where other fields hold the
\* name "InvalidType" too.
C10_Witness ==
    /\ Done
    /\ r.Project = "InvalidType"
    /\ Len(r.Items) = 2
    /\ r.Items[1].Type = "Added" /\ r.Items[1].Area = "InvalidType"
    /\ r.Items[2].Type = "InvalidType"
    /\ CountOn("items[0].type") = 0
    /\ HasError("items[1].type", InvalidTypeMessage("InvalidType"))

---------------------------------------------------------------------------
(* Content blocks                                                          *)

\* The field path of block j of element i (sequence indices, from 1).
BlockPath(coll, i, j, field) ==
    coll \o "[" \o ToString(i - 1) \o "].content[" \o ToString(j - 1) \o "]."
    \o field

\* The number of errors of the result on any field of the block.
CountOnBlock(coll, i, j) ==
    Cardinality({k \in 1..Len(Errs) :
        \E f \in {"type", "value", "headers", "rows", "items", "language",
                  "format"} :
            Errs[k].Field = BlockPath(coll, i, j, f)})

\* The payload rule for block b, block j of element i of the collection.
PayloadRule(coll, i, j, b) ==
    LET value == BlockPath(coll, i, j, "value")
        headers == BlockPath(coll, i, j, "headers")
        items == BlockPath(coll, i, j, "items")
    IN  /\ CountOn(value) =
              IF b.Type \in {"text", "code", "diagram", "blockquote"} /\ b.Value = ""
              THEN 1 ELSE 0
        /\ CountOn(value) = 1 => HasError(value, "required for type " \o b.Type)
        /\ CountOn(headers) = IF b.Type = "table" /\ b.Headers = <<>> THEN 1 ELSE 0
        /\ CountOn(headers) = 1 => HasError(headers, "required for type table")
        /\ CountOn(items) = IF b.Type = "list" /\ b.Items = <<>> THEN 1 ELSE 0
        /\ CountOn(items) = 1 => HasError(items, "required for type list")
        /\ CountOn(BlockPath(coll, i, j, "rows")) = 0
        /\ b.Type \in {"text", "code", "diagram", "blockquote", "table", "list"}
           => CountOnBlock(coll, i, j) = CountOn(value) + CountOn(headers)
                                         + CountOn(items)

\* C11: in the result Validate returns, a content block of an item and a
\* content block of a section follow the same payload rule: a text, code,
\* diagram or blockquote block has one error, on .value, if and only if its
\* value is empty; a table block one error, on .headers, if and only if it
\* has no headers, whatever its rows; a list block one error, on .items, if
\* and only if it has no items; a block of these types has no other error.
C11_PayloadRule ==
    Done =>
        /\ \A i \in 1..Len(r.Items) : \A j \in 1..Len(r.Items[i].Content) :
              PayloadRule("items", i, j, r.Items[i].Content[j])
        /\ \A i \in 1..Len(r.Sections) : \A j \in 1..Len(r.Sections[i].Content) :
              PayloadRule("sections", i, j, r.Sections[i].Content[j])

\* Validate has returned for an item with a text block without a value
\* and for a section with the same block, each reported on .value.
C11_Witness ==
    /\ Done
    /\ Len(r.Items) = 1 /\ Len(r.Sections) = 1
    /\ Len(r.Items[1].Content) = 1 /\ Len(r.Sections[1].Content) = 1
    /\ r.Items[1].Content[1].Type = "text" /\ r.Items[1].Content[1].Value = ""
    /\ r.Sections[1].Content[1] = r.Items[1].Content[1]
    /\ Errs = <<ValidationError("items[0].content[0].value",
                                "required for type text"),
                ValidationError("sections[0].content[0].value",
                                "required for type text")>>

ContentTypes == {"text", "code", "diagram", "table", "list", "blockquote"}

\* The type dispatch for a block of type t whose type has the path.
TypeDispatch(path, t) ==
    /\ CountOn(path) = IF t \in ContentTypes THEN 0 ELSE 1
    /\ t = "" => HasError(path, "required field is missing")
    /\ t # "" /\ t \notin ContentTypes => HasError(path, "unknown type: " \o t)

\* The messages of the errors on the path.
MessagesOn(path) == {Errs[k].Message : k \in {n \in 1..Len(Errs) : Errs[n].Field = path}}

\* C12: in the result Validate returns, a content block with an empty type
\* has one error on its .type path, 'required field is missing'; a block with
\* a non-empty type that is none of the six content types has one error on
\* its .type path, 'unknown type: <type>'; a block of one of the six types
\* has none; and no message on the type of a block with an empty type is a
\* message on the type of a block with an unknown type.
C12_TypeDispatch ==
    Done =>
        /\ \A i \in 1..Len(r.Items) : \A j \in 1..Len(r.Items[i].Content) :
              TypeDispatch(BlockPath("items", i, j, "type"),
                           r.Items[i].Content[j].Type)
        /\ \A i \in 1..Len(r.Sections) : \A j \in 1..Len(r.Sections[i].Content) :
              TypeDispatch(BlockPath("sections", i, j, "type"),
                           r.Sections[i].Content[j].Type)
        /\ \A i \in 1..Len(r.Items), k \in 1..Len(r.Sections) :
              \A j \in 1..Len(r.Items[i].Content),
                 l \in 1..Len(r.Sections[k].Content) :
                  LET a == r.Items[i].Content[j].Type
                      b == r.Sections[k].Content[l].Type
                  IN  (a = "") # (b = "") /\ a \notin ContentTypes
                      /\ b \notin ContentTypes
                      => MessagesOn(BlockPath("items", i, j, "type"))
                         \cap MessagesOn(BlockPath("sections", k, l, "type")) = {}

\* Validate has returned for an item whose block has an empty type and a
\* section whose block has the type "bogus".
C12_Witness ==
    /\ Done
    /\ Len(r.Items) = 1 /\ Len(r.Sections) = 1
    /\ Len(r.Items[1].Content) = 1 /\ Len(r.Sections[1].Content) = 1
    /\ r.Items[1].Content[1].Type = ""
    /\ r.Sections[1].Content[1].Type = "bogus"
    /\ Errs = <<ValidationError("items[0].content[0].type",
                                "required field is missing"),
                ValidationError("sections[0].content[0].type",
                                "unknown type: bogus")>>

---------------------------------------------------------------------------
(* The order of the errors                                                 *)

BlockFields == {"type", "value", "headers", "items"}

\* The field paths on which the item pass reports item i (from 1).
ItemPassFields(doc, i) ==
    {PathOf("items", i, f) : f \in {"id", "title", "status", "target_quarter", "type"}}
    \cup {"items[" \o ToString(i - 1) \o "].tasks[" \o ToString(j - 1)
          \o "].description" : j \in 1..Len(doc.Items[i].Tasks)}
    \cup {BlockPath("items", i, j, f) :
            j \in 1..Len(doc.Items[i].Content), f \in BlockFields}

\* The field paths on which pass p of the seven reports the document.
PassFields(doc, p) ==
    CASE p = 1 -> {"ir_version", "project"}
      [] p = 2 -> UNION {ItemPassFields(doc, i) : i \in 1..Len(doc.Items)}
      [] p = 3 -> {PathOf("items", i, "depends_on") : i \in 1..Len(doc.Items)}
      [] p = 4 -> {PathOf("areas", i, f) : i \in 1..Len(doc.Areas), f \in {"id", "name"}}
      [] p = 5 -> {PathOf("phases", i, f) :
                      i \in 1..Len(doc.Phases), f \in {"id", "name", "status"}}
      [] p = 6 -> {PathOf("items", i, f) : i \in 1..Len(doc.Items), f \in {"area", "phase"}}
      [] p = 7 -> {PathOf("sections", i, f) :
                      i \in 1..Len(doc.Sections), f \in {"id", "title"}}
                  \cup UNION {{BlockPath("sections", i, j, f) :
                                  j \in 1..Len(doc.Sections[i].Content),
                                  f \in BlockFields} :
                              i \in 1..Len(doc.Sections)}

\* The number of the pass, and of the item of the item pass (0 outside the
\* item pass), of each error of the list, given the fields of every pass.
PassesOf(errors, fields) ==
    [k \in 1..Len(errors) |-> {p \in 1..7 : errors[k].Field \in fields[p]}]

ItemsOf(doc, errors) ==
    [k \in 1..Len(errors) |->
        {i \in 1..Len(doc.Items) : errors[k].Field \in ItemPassFields(doc, i)}]

\* C13: at every point of Validate the errors are in the order of the seven
\* passes (root fields, items, depends_on, areas, phases, item area and
\* phase references, sections): every error is on a field of exactly one
\* pass, no error of a pass comes after an error of a later pass, and within
\* the item pass no error of an item comes after an error of a later item.
C13_PassOrder ==
    LET fields == <<PassFields(r, 1), PassFields(r, 2), PassFields(r, 3),
                    PassFields(r, 4), PassFields(r, 5), PassFields(r, 6),
                    PassFields(r, 7)>>
        pass == PassesOf(Errs, fields)
        item == ItemsOf(r, Errs)
    IN  /\ \A k \in 1..Len(Errs) : Cardinality(pass[k]) = 1
        /\ \A k \in 1..Len(Errs) : \A l \in (k + 1)..Len(Errs) :
              /\ \A p \in pass[k], q \in pass[l] : p <= q
              /\ pass[k] = {2} /\ pass[l] = {2}
                 => \A i \in item[k], j \in item[l] : i <= j

\* Validate has returned one error from each pass, two from the item pass
\* for the first item and one for the second, in the order of the passes.
C13_Witness ==
    /\ Done
    /\ Errs = <<ValidationError("project", "required field is missing"),
                ValidationError("items[0].title", "required field is missing"),
                ValidationError("items[0].content[0].value",
                                "required for type text"),
                ValidationError("items[1].tasks[0].description",
                                "required field is missing"),
                ValidationError("items[0].depends_on",
                                "references unknown item: nonexistent"),
                ValidationError("areas[0].name", "required field is missing"),
                ValidationError("phases[0].status", "invalid status: done"),
                ValidationError("items[1].area", "references unknown area: other"),
                ValidationError("sections[0].content[0].type",
                                "required field is missing")>>

---------------------------------------------------------------------------
(* Priorities                                                              *)

\* C14: every item of a document that Validate reports as valid has one of
\* the priorities critical, high, medium and low, or none.
C14_AsClaimed ==
    Done /\ result.Valid =>
        \A i \in 1..Len(r.Items) :
            r.Items[i].Priority \in {"", "critical", "high", "medium", "low"}

---------------------------------------------------------------------------
(* Validate returns                                                        *)

\* The position of a pass in Validate.
PassIndex(p) ==
    CASE p = "root" -> 1 [] p = "items" -> 2 [] p = "depends_on" -> 3
      [] p = "areas" -> 4 [] p = "phases" -> 5 [] p = "refs" -> 6
      [] p = "sections" -> 7 [] p = "done" -> 8

\* The result is a ValidationResult: a flag and a list of errors, each a
\* field path and a message.
IsValidationResult(res) ==
    /\ DOMAIN res = {"Valid", "Errors"}
    /\ res.Valid \in BOOLEAN
    /\ \A k \in 1..Len(res.Errors) : DOMAIN res.Errors[k] = {"Field", "Message"}

\* C15: Validate never raises.  Whatever the document holds, every pass that
\* has not returned can take its step, every step moves Validate to a later
\* pass, never changes the document and keeps the errors reported so far, so
\* that Validate returns after its seven passes; and what it builds and
\* returns is a ValidationResult, the problems of the document being in its
\* Errors.
C15_NeverRaises ==
    /\ [](Done \/ ENABLED Next)
    /\ [](IsValidationResult(result) /\ (Done /\ Violations(r) # {} => Errs # <<>>))
    /\ [][/\ PassIndex(pc') = PassIndex(pc) + 1
          /\ r' = r
          /\ SubSeq(result'.Errors, 1, Len(Errs)) = Errs]_vars

\* Validate has returned for two items of the zero value, having reported
\* the three missing fields of each.
C15_Witness ==
    /\ Done
    /\ r.Items = <<ZeroItem, ZeroItem>>
    /\ ~result.Valid
    /\ Len(Errs) = 6

---------------------------------------------------------------------------
(* Groupings                                                               *)

Groupings ==
    {"ItemsByArea", "ItemsByType", "ItemsByPhase", "ItemsByStatus",
     "ItemsByQuarter", "ItemsByPriority"}

\* A grouping has returned.
Grouped == pc = "returned" /\ view.op \in Groupings

\* C16: whichever of the six groupings has returned, its buckets hold as many
\* items as the document has, and every item of the document is at exactly
\* as many places of the buckets as it has positions in the document: one,
\* the items being distinct; no item is left out and none is there twice.
C16_GroupingComplete ==
    Grouped =>
        LET m == view.value
            places == UNION {{<<k, n>> : n \in 1..Len(m[k])} : k \in DOMAIN m}
        IN  /\ Cardinality(places) = Len(r.Items)
            /\ \A i \in 1..Len(r.Items) :
                  /\ Cardinality({p \in places : m[p[1]][p[2]] = r.Items[i]})
                     = Cardinality({j \in 1..Len(r.Items) : r.Items[j] = r.Items[i]})
                  /\ Cardinality({p \in places : m[p[1]][p[2]] = r.Items[i]}) = 1

\* ItemsByStatus has returned for three items, two of them of one status and
\* one without a status, in two buckets of two items and one.
C16_Witness ==
    /\ Grouped
    /\ view.op = "ItemsByStatus"
    /\ Len(r.Items) = 3
    /\ DOMAIN view.value = {"", "planned"}
    /\ Len(view.value["planned"]) = 2
    /\ Len(view.value[""]) = 1

\* The sentinel key of a grouping, and the value of the field it groups by.
SentinelOf(op) ==
    CASE op = "ItemsByArea" -> "_unspecified"
      [] op = "ItemsByType" -> "_unspecified"
      [] op = "ItemsByPhase" -> "_unphased"
      [] op = "ItemsByQuarter" -> "_unscheduled"
      [] op = "ItemsByPriority" -> "_unspecified"

GroupedField(op, item) ==
    CASE op = "ItemsByArea" -> item.Area
      [] op = "ItemsByType" -> item.Type
      [] op = "ItemsByPhase" -> item.Phase
      [] op = "ItemsByQuarter" -> Str(item.TargetQuarter)
      [] op = "ItemsByPriority" -> item.Priority

\* The keys of the map under which the item is found.
KeysHolding(m, item) == {k \in DOMAIN m : \E n \in 1..Len(m[k]) : m[k][n] = item}

\* C17: when ItemsByArea, ItemsByType, ItemsByPhase, ItemsByQuarter or
\* ItemsByPriority has returned, an item whose grouped field is empty is
\* under the sentinel key of the grouping ("_unspecified", "_unspecified",
\* "_unphased", "_unscheduled", "_unspecified") and under no other key, an
\* item with a value is under that value and under no other key, and the
\* map has no empty key.
C17_SentinelBuckets ==
    Grouped /\ view.op # "ItemsByStatus" =>
        /\ "" \notin DOMAIN view.value
        /\ \A i \in 1..Len(r.Items) :
              LET f == GroupedField(view.op, r.Items[i])
              IN  KeysHolding(view.value, r.Items[i]) =
                      {IF f = "" THEN SentinelOf(view.op) ELSE f}

\* ItemsByPhase has returned for an item without a phase and an item of
\* phase-1, the first under "_unphased" and the second under "phase-1".
C17_Witness ==
    /\ Grouped
    /\ view.op = "ItemsByPhase"
    /\ Len(r.Items) = 2
    /\ r.Items[1].Phase = "" /\ r.Items[2].Phase = "phase-1"
    /\ DOMAIN view.value = {"_unphased", "phase-1"}
    /\ view.value["_unphased"] = <<r.Items[1]>>
    /\ view.value["phase-1"] = <<r.Items[2]>>

\* C18: whichever grouping has returned, the items of a bucket are in the
\* order they have in the document: of two items of a bucket, the one in
\* front in the bucket is in front in r.Items.
C18_StablePartition ==
    Grouped =>
        \A k \in DOMAIN view.value :
            LET bucket == view.value[k]
            IN  \A a \in 1..Len(bucket) : \A b \in (a + 1)..Len(bucket) :
                    \E i \in 1..Len(r.Items) : \E j \in (i + 1)..Len(r.Items) :
                        /\ r.Items[i] = bucket[a]
                        /\ r.Items[j] = bucket[b]
                        /\ bucket[a] # bucket[b]

\* ItemsByArea has returned for items of the areas core, api, core: the
\* bucket of core holds the first item and then the third.
C18_Witness ==
    /\ Grouped
    /\ view.op = "ItemsByArea"
    /\ Len(r.Items) = 3
    /\ r.Items[1].Area = "core" /\ r.Items[2].Area = "api"
    /\ r.Items[3].Area = "core"
    /\ view.value["core"] = <<r.Items[1], r.Items[3]>>
    /\ view.value["api"] = <<r.Items[2]>>

---------------------------------------------------------------------------
(* Statistics                                                              *)

\* The number of items of the document whose field f has the value v.
ItemsWith(doc, f, v) == Cardinality({i \in 1..Len(doc.Items) : doc.Items[i][f] = v})

\* The map counts, for exactly the values of field f that occur among the
\* items and are not excluded, the items with that value.
CountsBy(m, doc, f, excluded) ==
    /\ DOMAIN m = {doc.Items[i][f] : i \in 1..Len(doc.Items)} \ excluded
    /\ \A v \in DOMAIN m : m[v] = ItemsWith(doc, f, v)

\* C19: the Stats of a document has the number of items as Total; ByStatus
\* counts the items of every status that occurs; ByArea, ByType and
\* ByPriority count the items of every non-empty area, type and priority
\* that occurs, and have no empty key and no "_unspecified" key; and
\* CompletedCount of it is the number of completed items, the entry of
\* ByStatus for "completed" (0 when there is none).
C19_Stats ==
    /\ pc = "returned" /\ view.op = "Stats" =>
          LET s == view.value
          IN  /\ s.Total = Len(r.Items)
              /\ CountsBy(s.ByStatus, r, "Status", {})
              /\ CountsBy(s.ByArea, r, "Area", {""})
              /\ CountsBy(s.ByType, r, "Type", {""})
              /\ CountsBy(s.ByPriority, r, "Priority", {""})
              /\ (DOMAIN s.ByArea \cup DOMAIN s.ByType \cup DOMAIN s.ByPriority)
                 \cap {"", "_unspecified"} = {}
    /\ pc = "returned" /\ view.op = "CompletedCount" =>
          /\ view.value = ItemsWith(r, "Status", "completed")
          /\ "completed" \in DOMAIN view.stats.ByStatus
             => view.value = view.stats.ByStatus["completed"]
          /\ "completed" \notin DOMAIN view.stats.ByStatus => view.value = 0

\* Stats has returned for three items, two completed and one without a
\* status, two of the area core and one without an area.
C19_Witness ==
    /\ pc = "returned"
    /\ view.op = "Stats"
    /\ view.value.Total = 3
    /\ DOMAIN view.value.ByStatus = {"completed", ""}
    /\ view.value.ByStatus["completed"] = 2
    /\ view.value.ByStatus[""] = 1
    /\ DOMAIN view.value.ByArea = {"core"}
    /\ view.value.ByArea["core"] = 2
    /\ \E i \in 1..3 : r.Items[i].Area = ""

\* C20: CompletedPercent of the Stats of a document is a number, never a
\* NaN or an infinity; it is CompletedCount / Total * 100 when the document
\* has items (40 for 2 completed items of 5) and 0 when it has none.
C20_CompletedPercent ==
    pc = "returned" /\ view.op = "CompletedPercent" =>
        LET p == view.value
            total == view.stats.Total
            completed == ItemsWith(r, "Status", "completed")
        IN  /\ p.kind = "finite" /\ p.den # 0
            /\ total = Len(r.Items)
            /\ total > 0 => p.num * total = completed * 100 * p.den
            /\ total = 0 => p.num = 0
            /\ total = 5 /\ completed = 2 => p.num = 40 * p.den

\* CompletedPercent has returned 40 for five items, two of them completed.
C20_Witness ==
    /\ pc = "returned"
    /\ view.op = "CompletedPercent"
    /\ Len(r.Items) = 5
    /\ ItemsWith(r, "Status", "completed") = 2
    /\ view.value.kind = "finite"
    /\ view.value.num = 40 * view.value.den

---------------------------------------------------------------------------
(* The legend                                                              *)

\* The built-in entry of each of the four statuses.
BuiltIn(status) ==
    CASE status = "completed" ->
            [Emoji |-> "white_check_mark", Description |-> "Completed"]
      [] status = "in_progress" ->
            [Emoji |-> "construction", Description |-> "In Progress"]
      [] status = "planned" -> [Emoji |-> "clipboard", Description |-> "Planned"]
      [] status = "future" ->
            [Emoji |-> "bulb", Description |-> "Under Consideration"]

\* C21: the legend GetLegend returns has the keys of the document's legend
\* and the four statuses; a key of the document's legend has the document's
\* entry and a status the document's legend lacks has its built-in entry; a
\* document that overrides only completed leaves in_progress, planned and
\* future at their built-in emoji and description.
C21_LegendMerge ==
    pc = "returned" /\ view.op = "GetLegend" =>
        LET legend == view.value
        IN  /\ DOMAIN legend = DOMAIN r.Legend \cup ValidStatuses
            /\ \A k \in DOMAIN r.Legend : legend[k] = r.Legend[k]
            /\ \A s \in ValidStatuses \ DOMAIN r.Legend : legend[s] = BuiltIn(s)
            /\ DOMAIN r.Legend = {"completed"} =>
                  /\ legend["in_progress"] = BuiltIn("in_progress")
                  /\ legend["planned"] = BuiltIn("planned")
                  /\ legend["future"] = BuiltIn("future")

\* GetLegend has returned for a document whose legend overrides only
\* completed: completed has the document's entry, the other three statuses
\* their built-in ones.
C21_Witness ==
    /\ pc = "returned"
    /\ view.op = "GetLegend"
    /\ DOMAIN r.Legend = {"completed"}
    /\ r.Legend["completed"] = [Emoji |-> "check", Description |-> "Done"]
    /\ view.value["completed"] = [Emoji |-> "check", Description |-> "Done"]
    /\ view.value["in_progress"].Emoji = "construction"
    /\ view.value["planned"].Emoji = "clipboard"
    /\ view.value["future"].Description = "Under Consideration"

\* C22 as claimed: GetStatusEmoji returns the emoji of the resolved legend's
\* entry for the status, and the empty string for every value that is none
\* of the four statuses.
C22_AsClaimed ==
    pc = "returned" /\ view.op = "GetStatusEmoji" =>
        /\ view.status \in DOMAIN r.Legend
           => view.value = r.Legend[view.status].Emoji
        /\ view.status \in ValidStatuses \ DOMAIN r.Legend
           => view.value = BuiltIn(view.status).Emoji
        /\ view.status \notin ValidStatuses => view.value = ""

\* C22: GetStatusEmoji returns the emoji of the document's entry for a
\* status the document's legend has, the built-in emoji for one of the four
\* statuses the document's legend lacks, and the empty string for a status
\* that the document's legend lacks and that is none of the four.
C22_StatusEmoji ==
    pc = "returned" /\ view.op = "GetStatusEmoji" =>
        /\ view.status \in DOMAIN r.Legend
           => view.value = r.Legend[view.status].Emoji
        /\ view.status \in ValidStatuses \ DOMAIN r.Legend
           => view.value = BuiltIn(view.status).Emoji
        /\ view.status \notin ValidStatuses \cup DOMAIN r.Legend
           => view.value = ""

\* GetStatusEmoji has returned the document's emoji for "blocked", which is
\* a key of the document's legend and none of the four statuses.
C22_Witness ==
    /\ pc = "returned"
    /\ view.op = "GetStatusEmoji"
    /\ view.status = "blocked"
    /\ "blocked" \in DOMAIN r.Legend
    /\ r.Legend["blocked"].Emoji = "check"
    /\ view.value = "check"

---------------------------------------------------------------------------
(* The order of the priorities                                             *)

\* C23: PriorityOrder gives critical rank 1, high rank 2, medium rank 3,
\* low rank 4, and every other value, the empty priority among them, rank 5.
C23_PriorityOrder ==
    pc = "returned" /\ view.op = "PriorityOrder" =>
        /\ view.priority = "critical" => view.value = 1
        /\ view.priority = "high" => view.value = 2
        /\ view.priority = "medium" => view.value = 3
        /\ view.priority = "low" => view.value = 4
        /\ view.priority \notin {"critical", "high", "medium", "low"}
           => view.value = 5

\* PriorityOrder has returned 5 for the empty priority.
C23_Witness ==
    /\ pc = "returned"
    /\ view.op = "PriorityOrder"
    /\ view.priority = ""
    /\ view.value = 5

\* Whether encoding/json can write a value without loss: its strings are
\* valid UTF-8 and its time, if set, has a year of four digits.
RECURSIVE Writable(_, _)
Writable(v, t) ==
    CASE t.k = "string" -> v # InvalidUTF8
      [] t.k = "chars" -> \A i \in DOMAIN v : v[i] # InvalidUTF8
      [] t.k \in {"int", "bool"} -> TRUE
      [] t.k = "time" -> v.set => v.year \in 0..9999
      [] t.k = "slice" -> \A i \in DOMAIN v : Writable(v[i], t.elem)
      [] t.k = "map" ->
            \A key \in DOMAIN v : key # InvalidUTF8 /\ Writable(v[key], t.elem)
      [] t.k = "ptr" -> v.set => Writable(v, TStruct(t.name))
      [] t.k = "struct" ->
            \A i \in DOMAIN StructFields(t.name) :
                LET f == StructFields(t.name)[i]
                IN  Writable(v[f.name], f.type)

\* ToJSON has succeeded, and Parse of its bytes has succeeded with a Roadmap
\* equal to r.
RoundTrips ==
    /\ view.op = "ToJSON" => view.value.err = NoError
    /\ view.op = "Parse" /\ view.after = "ToJSON" =>
          view.value.err = NoError /\ view.value.r = PtrTo(r)

\* C24 as claimed: for every Roadmap r, ToJSON then Parse succeeds and yields
\* a Roadmap equal to r in every field.
C24_AsClaimed == RoundTrips

\* C24: for every Roadmap r whose strings are valid UTF-8 and whose
\* generated_at, if set, has a year in 0..9999, ToJSON succeeds and Parse of
\* its bytes succeeds and yields a Roadmap equal to r in every field, the
\* omitted empty fields included.
C24_RoundTrip == Writable(r, TStruct("Roadmap")) => RoundTrips

C24_Witness ==
    /\ view.op = "Parse" /\ view.after = "ToJSON"
    /\ Writable(r, TStruct("Roadmap"))
    /\ r.GeneratedAt.set /\ r.Dependencies.set
    /\ Len(r.Items) = 1 /\ r.Items[1] = FullItem
    /\ Len(r.Areas) = 2 /\ r.Repository = ""
    /\ view.value.r = PtrTo(r)

Sentinels == {ErrReadFile, ErrParseJSON, ErrWriteFile}

\* An error of one kind and of no other.
OfKind(err, sentinel) == {s \in Sentinels : Is(err, s)} = {sentinel}

\* The call the view holds has failed, and with which underlying error.
CauseOf ==
    CASE view.op = "Parse" -> Unmarshal(view.data).err
      [] view.op = "ParseFile" ->
            LET f == ReadFile(files, view.path)
            IN  IF f.err # NoError THEN f.err ELSE Unmarshal(f.data).err
      [] view.op = "WriteFile" ->
            IF view.value = NoError THEN NoError
            ELSE IF MarshalIndent(r).err # NoError THEN MarshalIndent(r).err
            ELSE IF view.before[view.path].allowed THEN WriteError
            ELSE PathError
      [] OTHER -> NoError

\* The three kinds: Parse fails with ErrParseJSON alone and returns no
\* Roadmap; ParseFile fails with ErrReadFile alone if the file cannot be read
\* and with ErrParseJSON alone if it is read and malformed; WriteFile fails
\* with ErrWriteFile alone.
FailureKinds ==
    /\ view.op = "Parse" /\ CauseOf # NoError =>
          OfKind(view.value.err, ErrParseJSON) /\ view.value.r = NilRoadmap
    /\ view.op = "ParseFile" /\ CauseOf # NoError =>
          /\ view.value.r = NilRoadmap
          /\ IF ReadFile(files, view.path).err # NoError
             THEN OfKind(view.value.err, ErrReadFile)
             ELSE OfKind(view.value.err, ErrParseJSON)
    /\ view.op = "WriteFile" /\ view.value # NoError =>
          OfKind(view.value, ErrWriteFile)

\* The failure the view holds has its underlying error in its chain.
CausePreserved ==
    CauseOf # NoError =>
        Is(IF view.op = "WriteFile" THEN view.value ELSE view.value.err, CauseOf)

\* C25: the codec's failures are of three disjoint kinds (ErrParseJSON,
\* ErrReadFile, ErrWriteFile), every failure matches exactly one kind, Parse
\* returns no Roadmap on failure, and every failure preserves its underlying
\* cause.
C25_AsClaimed == FailureKinds /\ CausePreserved

\* Validate run alone on a document, from its first pass to its last.
ValidateAlone(doc) ==
    LET root == rootPass([Valid |-> TRUE, Errors |-> <<>>], doc)
        items == itemsPass(root, doc)
        deps == dependsPass(items.res, doc, items.ids)
        areas == areasPass(deps, doc)
        phases == phasesPass(areas.res, doc)
        refs == refsPass(phases.res, doc, areas.ids, phases.ids)
    IN  sectionsPass(refs, doc).res

\* What a call has returned.
Returned(p) ==
    IF procs[p].op = "Validate" THEN procs[p].result ELSE procs[p].value

Finished(p) == procs[p].pc \in {"done", "returned"}

\* C26: under any interleaving of concurrent calls of Validate, the
\* groupings, Stats and GetLegend on one Roadmap, the Roadmap keeps the value
\* it had when the calls started, and every call that has returned has
\* returned what it returns when run alone on that value.
C26_ReadOnly ==
    \A p \in DOMAIN procs :
        /\ r = procs[p].called
        /\ Finished(p) =>
              Returned(p) = IF procs[p].op = "Validate"
                            THEN ValidateAlone(procs[p].called)
                            ELSE viewOf(procs[p].op, procs[p].called)

C26_Witness ==
    /\ \A p \in DOMAIN procs : Finished(p)
    /\ procs[1].op = "GetLegend" /\ procs[2].op = "Validate"
    /\ ~procs[2].result.Valid
    /\ DOMAIN r.Legend # {}
    /\ r = procs[1].called

RECURSIVE SumValues(_)
SumValues(m) ==
    IF DOMAIN m = {} THEN 0
    ELSE LET k == CHOOSE x \in DOMAIN m : TRUE
         IN  m[k] + SumValues([x \in DOMAIN m \ {k} |-> m[x]])

\* m[k] of a map of counts and len(m[k]) of a map of slices, 0 for no key.
CountAt(m, k) == IF k \in DOMAIN m THEN m[k] ELSE 0

LenAt(m, k) == IF k \in DOMAIN m THEN Len(m[k]) ELSE 0

\* C28: the values of Stats().ByStatus sum to Stats().Total; for every status
\* s, the empty one and those of no item included, Stats().ByStatus[s] is the
\* number of items of ItemsByStatus()[s]; and CompletedCount() of that Stats
\* is at most its Total.
C28_StatsAgree ==
    /\ pc = "returned" /\ view.op = "Stats" =>
          /\ SumValues(view.value.ByStatus) = view.value.Total
          /\ \A s \in StatusInputs \cup DOMAIN view.value.ByStatus
                      \cup DOMAIN ItemsByStatus(r) :
                CountAt(view.value.ByStatus, s) = LenAt(ItemsByStatus(r), s)
    /\ pc = "returned" /\ view.op = "CompletedCount" =>
          view.value <= view.stats.Total

C28_Witness ==
    /\ pc = "returned" /\ view.op = "CompletedCount"
    /\ view.value = 1 /\ view.stats.Total = 3
    /\ CountAt(view.stats.ByStatus, "") = 2
    /\ LenAt(ItemsByStatus(r), "") = 2

\* The payload field the type of a block requires, none for a block whose
\* type is empty or unknown.
OwnField(b) ==
    CASE b.Type \in {"text", "code", "diagram", "blockquote"} -> {"value"}
      [] b.Type = "table" -> {"headers"}
      [] b.Type = "list" -> {"items"}
      [] OTHER -> {}

\* The field the type of the block requires is there.
OwnPresent(b) ==
    \/ "value" \in OwnField(b) /\ b.Value # ""
    \/ "headers" \in OwnField(b) /\ Len(b.Headers) > 0
    \/ "items" \in OwnField(b) /\ Len(b.Items) > 0

PayloadFields == {"value", "language", "format", "headers", "rows", "items"}

\* Block b, block j of element i of the collection, has at most one error,
\* none on a payload field its type does not require, and none at all if its
\* type is a content type and the field the type requires is there.
OneErrorAtMost(coll, i, j, b) ==
    LET on == [f \in PayloadFields \cup {"type"} |->
                  CountOn(BlockPath(coll, i, j, f))]
        total == SumValues(on)
    IN  /\ total <= 1
        /\ \A f \in PayloadFields \ OwnField(b) : on[f] = 0
        /\ OwnPresent(b) => total = 0

\* C29: in the result Validate returns, every content block of an item or a
\* section has at most one error, and a payload field that belongs to another
\* type (headers on a text block, value on a table block) has no error,
\* present or not.
C29_OneErrorPerBlock ==
    Done =>
        /\ \A i \in 1..Len(r.Items) : \A j \in 1..Len(r.Items[i].Content) :
              OneErrorAtMost("items", i, j, r.Items[i].Content[j])
        /\ \A i \in 1..Len(r.Sections) : \A j \in 1..Len(r.Sections[i].Content) :
              OneErrorAtMost("sections", i, j, r.Sections[i].Content[j])

\* Validate has returned for a text block without a value, with headers and
\* with items, with the one error on its value.
C29_Witness ==
    /\ Done
    /\ Len(r.Items) = 1 /\ Len(r.Items[1].Content) = 1
    /\ r.Items[1].Content[1] =
          [ZeroContentBlock EXCEPT !.Type = "text", !.Headers = <<"H">>,
                                   !.Items = <<"one">>]
    /\ Errs = <<ValidationError("items[0].content[0].value",
                                "required for type text")>>

\* The call the view holds has returned a map allocated by that call, with
\* the entries the function gives for the document, or the emoji it gives.
FreshAndRight ==
    /\ view.op \in {"GetLegend", "DefaultLegend"} =>
          /\ view.ref = HeapRef(Len(heap))
          /\ view.value = IF view.op = "GetLegend" THEN GetLegend(r)
                          ELSE DefaultLegend
    /\ view.op = "GetStatusEmoji" => view.value = GetStatusEmoji(r, view.status)

\* C30: every call of GetLegend and of DefaultLegend returns a map allocated
\* by that call; no call, and no change a caller makes to a map it was
\* returned, changes the document; and so a later GetLegend, DefaultLegend or
\* GetStatusEmoji returns what it returns for the unchanged document.
C30_FreshMap == [](FreshAndRight) /\ [][r' = r]_vars

\* GetLegend has returned the resolved legend of a document with a legend
\* after a caller deleted an entry of the map an earlier call returned.
C30_Witness ==
    /\ view.op = "GetLegend" /\ Len(heap) = 2
    /\ DOMAIN r.Legend # {}
    /\ StatusCompleted \notin DOMAIN heap[1]
    /\ heap[2] = GetLegend(r) /\ view.ref = HeapRef(2)

=============================================================================
